---- MODULE Spec2Model ----
(***************************************************************************)
(* A model of bch.c, the runtime-configurable binary BCH codec: the field  *)
(* tables, the generator polynomial, the table-driven encoder, the         *)
(* syndrome / Berlekamp-Massey / BTZ decoder, and the bump allocator.      *)
(*                                                                         *)
(* Representation.                                                         *)
(*   - uint32_t ecc words do not fit the model checker's integers, so a    *)
(*     32-bit word is the set of its set bit indices (0 = least            *)
(*     significant); shifts drop what leaves bits 0..31.                   *)
(*   - bytes, field elements, logarithms and table indices are integers.   *)
(*   - C arrays are functions over 0..size-1; UNINIT marks a cell that was *)
(*     allocated and never written, NULL a null pointer.                   *)
(***************************************************************************)
EXTENDS Integers, Sequences, FiniteSets, TLC

NULL == -1
UNINIT == -1

\* the array f with every cell evaluated once (TLC keeps a function
\* constructor unevaluated and would re-evaluate a cell at each read)
Mem(f) == IF f = <<>> THEN <<>> ELSE f

EINVAL == 11
EBADMSG == 13

\* -------------------------------------------------------------------------
\* integer bit operations (unsigned int values below 2^31)
\* -------------------------------------------------------------------------
RECURSIVE XOR(_, _)
XOR(a, b) ==
    IF a = 0 THEN b
    ELSE IF b = 0 THEN a
    ELSE ((a + b) % 2) + 2 * XOR(a \div 2, b \div 2)

RECURSIVE AND(_, _)
AND(a, b) ==
    IF a = 0 \/ b = 0 THEN 0
    ELSE ((a % 2) * (b % 2)) + 2 * AND(a \div 2, b \div 2)

SHL(a, k) == a * (2 ^ k)

SHR(a, k) == a \div (2 ^ k)

BIT(a, i) == (a \div (2 ^ i)) % 2

DIV_ROUND_UP(n, d) == (n + d - 1) \div d

\* one "if (x >= 1 << k) { x >>= k; r += k; }" of FLS
fls_step(s, k) == IF s.x >= 2 ^ k THEN [r |-> s.r + k, x |-> s.x \div (2 ^ k)] ELSE s

\* "return r + x"
fls_sum(s) == s.r + s.x

\* FLS: index of the most significant set bit, plus one (0 for 0)
FLS(x0) ==
    fls_sum(fls_step(fls_step(fls_step(fls_step(fls_step(
        [r |-> 0, x |-> x0], 16), 8), 4), 2), 1))

deg(poly) == FLS(poly) - 1

\* -------------------------------------------------------------------------
\* 32-bit words as sets of bit indices
\* -------------------------------------------------------------------------
WXor(a, b) == (a \ b) \cup (b \ a)

WShl(a, k) == {i + k : i \in {j \in a : j + k <= 31}}

WShr(a, k) == {i - k : i \in {j \in a : j >= k}}

\* the word holding byte value v shifted left by sh
WOfByte(v, sh) == {i + sh : i \in {j \in 0..7 : BIT(v, j) = 1}}

\* (w >> sh) & 0xff as an integer
WByte(w, sh) ==
    LET b(i) == IF (i + sh) \in w THEN 2 ^ i ELSE 0
    IN  b(0) + b(1) + b(2) + b(3) + b(4) + b(5) + b(6) + b(7)

\* deg() of a non-zero uint32_t
WDeg(w) == CHOOSE i \in w : \A j \in w : j <= i

\* -------------------------------------------------------------------------
\* Galois field arithmetic on the tables of a codec
\* -------------------------------------------------------------------------
GF_M(bch) == bch.m
GF_T(bch) == bch.t
GF_N(bch) == bch.n

BCH_ECC_WORDS(bch) == DIV_ROUND_UP(GF_M(bch) * GF_T(bch), 32)
BCH_ECC_BYTES(bch) == DIV_ROUND_UP(GF_M(bch) * GF_T(bch), 8)

RECURSIVE modulo(_, _)
modulo(bch, v) ==
    IF v >= GF_N(bch)
    THEN LET w == v - GF_N(bch)
         IN  modulo(bch, AND(w, GF_N(bch)) + SHR(w, GF_M(bch)))
    ELSE v

mod_s(bch, v) == IF v < GF_N(bch) THEN v ELSE v - GF_N(bch)

gf_mul(bch, a, b) ==
    IF a # 0 /\ b # 0
    THEN bch.a_pow_tab[mod_s(bch, bch.a_log_tab[a] + bch.a_log_tab[b])]
    ELSE 0

gf_sqr(bch, a) ==
    IF a # 0 THEN bch.a_pow_tab[mod_s(bch, 2 * bch.a_log_tab[a])] ELSE 0

gf_div(bch, a, b) ==
    IF a # 0
    THEN bch.a_pow_tab[mod_s(bch, bch.a_log_tab[a] + GF_N(bch) - bch.a_log_tab[b])]
    ELSE 0

gf_inv(bch, a) == bch.a_pow_tab[GF_N(bch) - bch.a_log_tab[a]]

\* the int i is converted to unsigned int: a negative i is i + 2^32, which
\* modulo() reduces to (i + 2^32) mod n, and 2^32 mod n = 2^(32 mod m)
a_pow(bch, i) ==
    IF i >= 0 THEN bch.a_pow_tab[modulo(bch, i)]
    ELSE bch.a_pow_tab[((i % GF_N(bch)) + 2 ^ (32 % GF_M(bch))) % GF_N(bch)]

a_log(bch, x) == bch.a_log_tab[x]

a_ilog(bch, x) == mod_s(bch, GF_N(bch) - bch.a_log_tab[x])


\* -------------------------------------------------------------------------
\* allocator: malloc on linux, otherwise a bump allocator over alloc_heap
\* -------------------------------------------------------------------------
SizeofAllocHeap == 24576

\* sizeof(struct bch_control): 5 unsigned int fields and 14 pointers (LP64)
SizeofBchControl == 136

\* struct gf_poly { unsigned int deg; unsigned int c[0]; }, in bytes
GF_POLY_SZ(d) == 4 + (d + 1) * 4

\* sizeof(struct gf_poly_deg1), in unsigned int units
GfPolyDeg1Words == 3

bch_check_free(heap_i) == SizeofAllocHeap - heap_i

\* [ptr, heap_i]: on linux a malloc'ed block (address 0 stands for any valid
\* block), otherwise the offset of the block in alloc_heap, or NULL
bch_alloc(build, heap_i, size) ==
    IF build = "linux"
    THEN [ptr |-> 0, heap_i |-> heap_i]
    ELSE IF heap_i + size >= SizeofAllocHeap
         THEN [ptr |-> NULL, heap_i |-> heap_i]
         ELSE [ptr |-> heap_i, heap_i |-> heap_i + size]

\* a run of bch_alloc calls in program order: [ptrs, heap_i]
RECURSIVE alloc_seq(_, _, _, _)
alloc_seq(build, heap_i, sizes, ptrs) ==
    IF sizes = <<>> THEN [ptrs |-> ptrs, heap_i |-> heap_i]
    ELSE LET a == bch_alloc(build, heap_i, Head(sizes))
         IN  alloc_seq(build, a.heap_i, Tail(sizes), Append(ptrs, a.ptr))

\* alloc_heap_i after free_bch
free_bch(build, heap_i) == IF build = "linux" THEN heap_i ELSE 0

\* -------------------------------------------------------------------------
\* build_gf_tables: [err, a_pow_tab, a_log_tab]
\* -------------------------------------------------------------------------
\* one iteration of "for (i = 0; i < GF_N(bch); i++)" on the loop state s;
\* s.err is -1 once the loop has been left by "return -1"
build_gf_step(k, poly, s) ==
    IF s.err # 0 THEN s
    ELSE [i |-> s.i + 1,
          x |-> IF AND(SHL(s.x, 1), k) # 0 THEN XOR(SHL(s.x, 1), poly) ELSE SHL(s.x, 1),
          a_pow_tab |-> [s.a_pow_tab EXCEPT ![s.i] = s.x],
          a_log_tab |-> [s.a_log_tab EXCEPT ![s.x] = s.i],
          err |-> IF s.i # 0 /\ s.x = 1 THEN -1 ELSE 0]

\* the iterations lo .. hi-1 of the loop (lo < hi), by halves
RECURSIVE build_gf_loop(_, _, _, _, _)
build_gf_loop(k, poly, lo, hi, s) ==
    IF s.err # 0 THEN s
    ELSE IF hi - lo = 1 THEN build_gf_step(k, poly, s)
    ELSE build_gf_loop(k, poly, (lo + hi) \div 2, hi,
                       build_gf_loop(k, poly, lo, (lo + hi) \div 2, s))

\* "return 0" without "bch->a_pow_tab[GF_N(bch)] = 1"
build_gf_done_short(n, s) ==
    [err |-> s.err, a_pow_tab |-> s.a_pow_tab,
     a_log_tab |-> IF s.err # 0 THEN s.a_log_tab ELSE [s.a_log_tab EXCEPT ![0] = 0]]

\* "bch->a_pow_tab[GF_N(bch)] = 1; bch->a_log_tab[0] = 0; return 0"
build_gf_done(n, s) ==
    IF s.err # 0
    THEN [err |-> -1, a_pow_tab |-> s.a_pow_tab, a_log_tab |-> s.a_log_tab]
    ELSE [err |-> 0, a_pow_tab |-> [s.a_pow_tab EXCEPT ![n] = 1],
          a_log_tab |-> [s.a_log_tab EXCEPT ![0] = 0]]

\* the tables before the loop: (n + 1) cells each, none written
build_gf_blank(n) == Mem([i \in 0..n |-> UNINIT])

build_gf_tables(m, poly) ==
    IF SHL(1, deg(poly)) # SHL(1, m)
    THEN [err |-> -1, a_pow_tab |-> build_gf_blank((2 ^ m) - 1),
          a_log_tab |-> build_gf_blank((2 ^ m) - 1)]
    ELSE build_gf_done((2 ^ m) - 1,
                       build_gf_loop(SHL(1, deg(poly)), poly, 0, (2 ^ m) - 1,
                                     [i |-> 0, x |-> 1, err |-> 0,
                                      a_pow_tab |-> build_gf_blank((2 ^ m) - 1),
                                      a_log_tab |-> build_gf_blank((2 ^ m) - 1)]))

\* -------------------------------------------------------------------------
\* compute_generator_polynomial: [genpoly, ecc_bits, g, fault]
\* -------------------------------------------------------------------------
\* only a^r itself is marked, not its conjugates a^(2r), a^(4r), ...
mark_coset_once(bch, roots, r, j) == [roots EXCEPT ![r] = 1]

\* roots[] after "enumerate all roots of g(X)" ("roots[r] = 1" on a cell
\* that holds 1 leaves roots[] as it is)
RECURSIVE mark_coset(_, _, _, _)
mark_coset(bch, roots, r, j) ==
    IF j >= GF_M(bch) THEN roots
    ELSE IF roots[r] = 1 THEN mark_coset(bch, roots, mod_s(bch, 2 * r), j + 1)
    ELSE mark_coset(bch, [roots EXCEPT ![r] = 1], mod_s(bch, 2 * r), j + 1)

RECURSIVE mark_roots(_, _, _)
mark_roots(bch, roots, i) ==
    IF i >= GF_T(bch) THEN roots
    ELSE mark_roots(bch, mark_coset(bch, roots, 2 * i + 1, 0), i + 1)

\* a coefficient whose logarithm was never written by build_gf_tables
LogUninit(bch, x) == x # 0 /\ bch.a_log_tab[x] = UNINIT

\* g(X) * (X + r)
poly_mul_root(bch, g, r) ==
    [deg |-> g.deg + 1,
     c   |-> Mem([j \in DOMAIN g.c |->
                IF j = g.deg + 1 THEN 1
                ELSE IF j = 0 THEN gf_mul(bch, g.c[0], r)
                ELSE IF j <= g.deg THEN XOR(gf_mul(bch, g.c[j], r), g.c[j - 1])
                ELSE g.c[j]])]

\* "multiply g(X) by (X+root)" for the root r = a^i, on the loop state
\* s = [g, fault]; the loop stops at a read of an unwritten a_log_tab cell
genpoly_mul(bch, s, r) ==
    IF r # 0 /\ (LogUninit(bch, r) \/ \E j \in 0..s.g.deg : LogUninit(bch, s.g.c[j]))
    THEN [g |-> s.g, fault |-> "uninit_read"]
    ELSE [g |-> poly_mul_root(bch, s.g, r), fault |-> "none"]

\* iteration i of "for (i = 0; i < GF_N(bch); i++) if (roots[i])"
genpoly_step(bch, roots, i, s) ==
    IF s.fault # "none" \/ roots[i] = 0 THEN s
    ELSE genpoly_mul(bch, s, bch.a_pow_tab[i])

\* the iterations lo .. hi-1 of the loop (lo < hi), by halves
RECURSIVE build_genpoly(_, _, _, _, _)
build_genpoly(bch, roots, lo, hi, s) ==
    IF s.fault # "none" THEN s
    ELSE IF hi - lo = 1 THEN genpoly_step(bch, roots, lo, s)
    ELSE build_genpoly(bch, roots, (lo + hi) \div 2, hi,
                       build_genpoly(bch, roots, lo, (lo + hi) \div 2, s))

\* the i-th word of the left-justified binary representation of g(X)
genpoly_word(g, i) ==
    LET n == g.deg + 1 - 32 * i
        nbits == IF n > 32 THEN 32 ELSE n
    IN  {31 - j : j \in {jj \in 0..(nbits - 1) : g.c[n - 1 - jj] # 0}}

\* "store left-justified binary representation of g(X)"
genpoly_store(bch, roots, b) ==
    [genpoly  |-> Mem([i \in 0..(DIV_ROUND_UP(GF_M(bch) * GF_T(bch) + 1, 32) - 1) |->
                      IF i < DIV_ROUND_UP(b.g.deg + 1, 32) /\ b.fault = "none"
                      THEN genpoly_word(b.g, i)
                      ELSE {"uninit"}]),
     ecc_bits |-> b.g.deg,
     g        |-> b.g,
     roots    |-> roots,
     fault    |-> b.fault]

\* "g->deg = 0; g->c[0] = 1" and the product over the marked roots
genpoly_product(bch, roots) ==
    genpoly_store(bch, roots,
                  build_genpoly(bch, roots, 0, GF_N(bch),
                                [g |-> [deg |-> 0,
                                        c |-> Mem([j \in 0..(GF_M(bch) * GF_T(bch)) |->
                                                    IF j = 0 THEN 1 ELSE UNINIT])],
                                 fault |-> "none"]))

compute_generator_polynomial(bch) ==
    genpoly_product(bch, mark_roots(bch, Mem([i \in 0..bch.n |-> 0]), 0))

\* -------------------------------------------------------------------------
\* build_mod8_tables
\* -------------------------------------------------------------------------
\* one pass of "while (data)": tab[0..l-1] for p(X) = data, g the generator
RECURSIVE mod8_row(_, _, _, _, _)
mod8_row(g, plen, ecclen, data, tab) ==
    IF data = {} THEN tab
    ELSE LET d == WDeg(data)
             data1 == WXor(data, WShr(g[0], 31 - d))
             tab1 == Mem([j \in DOMAIN tab |->
                        IF j < ecclen
                        THEN LET hi == IF d < 31 THEN WShl(g[j], d + 1) ELSE {}
                                 lo == IF j + 1 < plen THEN WShr(g[j + 1], 31 - d) ELSE {}
                             IN  WXor(tab[j], hi \cup lo)
                        ELSE tab[j]])
         IN  mod8_row(g, plen, ecclen, data1, tab1)

build_mod8_tables(bch, g) ==
    LET l == BCH_ECC_WORDS(bch)
        plen == DIV_ROUND_UP(bch.ecc_bits + 1, 32)
        ecclen == DIV_ROUND_UP(bch.ecc_bits, 32)
        row == Mem([bi \in 0..1023 |->
                  mod8_row(g, plen, ecclen, WOfByte(bi % 256, 8 * (bi \div 256)),
                           [j \in 0..(l - 1) |-> {}])])
    IN  Mem([e \in 0..(4 * 256 * l - 1) |-> row[e \div l][e % l]])

\* -------------------------------------------------------------------------
\* build_deg2_base: [err, xi_tab]
\* -------------------------------------------------------------------------
RECURSIVE trace_sum(_, _, _, _)
trace_sum(bch, i, j, sum) ==
    IF j >= GF_M(bch) THEN sum
    ELSE trace_sum(bch, i, j + 1, XOR(sum, a_pow(bch, i * (2 ^ j))))

\* a^k for the first k < m with Tr(a^k) = 1, or 0
RECURSIVE find_ak(_, _)
find_ak(bch, i) ==
    IF i >= GF_M(bch) THEN 0
    ELSE IF trace_sum(bch, i, 0, 0) # 0 THEN bch.a_pow_tab[i]
    ELSE find_ak(bch, i + 1)

\* "if (y && (r < GF_M(bch)) && !xi[r])"; s.xi: the indices r with xi[r] set
deg2_hit(bch, s, y) == y # 0 /\ a_log(bch, y) < GF_M(bch) /\ a_log(bch, y) \notin s.xi

\* "bch->xi_tab[r] = x; xi[r] = 1; remaining--"
deg2_set(bch, s, y, x) ==
    [remaining |-> s.remaining - 1, xi |-> s.xi \cup {a_log(bch, y)},
     xi_tab |-> [s.xi_tab EXCEPT ![a_log(bch, y)] = x]]

\* "for (i = 0; i < 2; i++)" with y = x^2 + x
deg2_try(bch, ak, x, s, y) ==
    IF deg2_hit(bch, s, y) THEN deg2_set(bch, s, y, x)
    ELSE IF deg2_hit(bch, s, XOR(y, ak)) THEN deg2_set(bch, s, XOR(y, ak), x)
    ELSE s

\* iteration x of "for (x = 0; (x <= GF_N(bch)) && remaining; x++)"
deg2_step(bch, ak, x, s) ==
    IF s.remaining = 0 THEN s
    ELSE deg2_try(bch, ak, x, s, XOR(gf_sqr(bch, x), x))

\* the iterations lo .. hi-1 of the loop (lo < hi), by halves
RECURSIVE deg2_loop(_, _, _, _, _)
deg2_loop(bch, ak, lo, hi, s) ==
    IF s.remaining = 0 THEN s
    ELSE IF hi - lo = 1 THEN deg2_step(bch, ak, lo, s)
    ELSE deg2_loop(bch, ak, (lo + hi) \div 2, hi,
                   deg2_loop(bch, ak, lo, (lo + hi) \div 2, s))

\* "return remaining ? -1 : 0"
deg2_done(s) == [err |-> IF s.remaining # 0 THEN -1 ELSE 0, xi_tab |-> s.xi_tab]

build_deg2_base(bch) ==
    deg2_done(deg2_loop(bch, find_ak(bch, 0), 0, GF_N(bch) + 1,
                        [remaining |-> GF_M(bch), xi |-> {},
                         xi_tab |-> Mem([i \in 0..(GF_M(bch) - 1) |-> UNINIT])]))

\* -------------------------------------------------------------------------
\* init_bch: [ret, heap_i, fault]
\*   ret    the new struct bch_control, or NULL
\*   fault  "none", or the undefined behaviour the call ran into; ret is
\*          then meaningless
\* -------------------------------------------------------------------------
min_m == 5
max_m == 15
INT_MAX == 2147483647

prim_poly_tab == <<37, 67, 131, 285, 529, 1033, 2053, 4179, 8219, 16427, 32771>>

\* poly scratch: elp ((t+1) * sizeof(struct gf_poly_deg1)) followed by
\* poly_2t[0..3] (GF_POLY_SZ(2t) each), in unsigned int units
ElpWords(t) == (t + 1) * GfPolyDeg1Words
Poly2tWords(t) == GF_POLY_SZ(2 * t) \div 4
ELP == 0
POLY_2T(t, i) == ElpWords(t) + i * Poly2tWords(t)
PmWords(t) == ElpWords(t) + 4 * Poly2tWords(t)

init_sizes(m, t) ==
    LET n == (2 ^ m) - 1
        words == DIV_ROUND_UP(m * t, 32)
    IN  << (1 + n) * 2, (1 + n) * 2, words * 1024 * 4, words * 4, words * 4,
           m * 4, 2 * t * 4, 2 * t * 4, (t + 1) * (GfPolyDeg1Words * 4),
           GF_POLY_SZ(2 * t), GF_POLY_SZ(2 * t), GF_POLY_SZ(2 * t), GF_POLY_SZ(2 * t) >>

genpoly_sizes(m, t) ==
    << GF_POLY_SZ(m * t), ((2 ^ m) - 1 + 1) * 4, DIV_ROUND_UP(m * t + 1, 32) * 4 >>

\* a null struct bch_control pointer
NullBch == [ptr |-> [bch |-> NULL]]

IsNull(bch) == bch.ptr.bch = NULL

init_fail(build, heap_i) ==
    [ret |-> NullBch, heap_i |-> free_bch(build, heap_i), fault |-> "none"]

init_fault(heap_i, what) == [ret |-> NullBch, heap_i |-> heap_i, fault |-> what]

\* ecc_bytes rounded down instead of up
init_ecc_bytes_floor(m, t) == (m * t) \div 8

\* "bch->ecc_bytes = DIV_ROUND_UP(m*t, 8)"
init_ecc_bytes(m, t) == DIV_ROUND_UP(m * t, 8)

\* the pointers init_bch has stored in the struct (a0: the struct itself,
\* p: the thirteen tables and scratch buffers)
init_ptrs(a0, p) ==
    [bch |-> a0.ptr, a_pow_tab |-> p[1], a_log_tab |-> p[2],
     mod8_tab |-> p[3], ecc_buf |-> p[4], ecc_buf2 |-> p[5],
     xi_tab |-> p[6], syn |-> p[7], cache |-> p[8], elp |-> p[9],
     poly_2t |-> <<p[10], p[11], p[12], p[13]>>, databuf |-> NULL]

\* "return bch": the codec, its scratch buffers not yet written
\* (or "goto fail" after build_deg2_base)
init_done(build, a0, al, ag, b2, gen, d2) ==
    IF d2.err # 0 THEN init_fail(build, ag.heap_i)
    ELSE [ret |-> [m |-> b2.m, t |-> b2.t, n |-> b2.n, ecc_bits |-> b2.ecc_bits,
                   ecc_bytes |-> b2.ecc_bytes,
                   a_pow_tab |-> b2.a_pow_tab, a_log_tab |-> b2.a_log_tab,
                   mod8_tab |-> build_mod8_tables(b2, gen.genpoly),
                   xi_tab |-> d2.xi_tab,
                   ecc_buf |-> Mem([i \in 0..(BCH_ECC_WORDS(b2) - 1) |-> {"uninit"}]),
                   ecc_buf2 |-> Mem([i \in 0..(BCH_ECC_WORDS(b2) - 1) |-> {"uninit"}]),
                   syn |-> Mem([i \in 0..(2 * b2.t - 1) |-> UNINIT]),
                   cache |-> Mem([i \in 0..(2 * b2.t - 1) |-> UNINIT]),
                   pm |-> Mem([i \in 0..(PmWords(b2.t) - 1) |-> UNINIT]),
                   databuf |-> <<>>,
                   ptr |-> init_ptrs(a0, al.ptrs)],
          heap_i |-> ag.heap_i, fault |-> "none"]

\* "build_mod8_tables(bch, genpoly); ... err = build_deg2_base(bch)"
init_deg2(build, a0, al, ag, b2, gen) ==
    init_done(build, a0, al, ag, b2, gen, build_deg2_base(b2))

\* after "genpoly = compute_generator_polynomial(bch)"
init_mod8(build, a0, al, ag, b1, gen) ==
    IF gen.fault # "none" THEN init_fault(ag.heap_i, gen.fault)
    ELSE IF al.ptrs[3] = NULL THEN init_fault(ag.heap_i, "null_write")
    ELSE IF al.ptrs[6] = NULL THEN init_fault(ag.heap_i, "null_write")
    ELSE init_deg2(build, a0, al, ag, [b1 EXCEPT !.ecc_bits = gen.ecc_bits], gen)

\* compute_generator_polynomial with its three allocations ag
init_gen(build, a0, al, ag, b1) ==
    IF \E i \in 1..3 : ag.ptrs[i] = NULL THEN init_fault(ag.heap_i, "null_write")
    ELSE init_mod8(build, a0, al, ag, b1, compute_generator_polynomial(b1))

\* after "err = build_gf_tables(bch, prim_poly)"
init_genpoly(build, m, t, a0, al, gf) ==
    IF gf.err # 0 THEN init_fail(build, al.heap_i)
    ELSE init_gen(build, a0, al,
                  alloc_seq(build, al.heap_i, genpoly_sizes(m, t), <<>>),
                  [m |-> m, t |-> t, n |-> (2 ^ m) - 1, ecc_bits |-> 0,
                   ecc_bytes |-> init_ecc_bytes(m, t),
                   a_pow_tab |-> gf.a_pow_tab, a_log_tab |-> gf.a_log_tab])

\* after the allocations a0 (the struct) and al (tables and scratch buffers)
init_tables(build, m, t, poly, a0, al) ==
    IF a0.ptr = NULL THEN init_fail(build, a0.heap_i)
    ELSE IF SHL(1, deg(poly)) # SHL(1, m) THEN init_fail(build, al.heap_i)
    ELSE IF al.ptrs[1] = NULL \/ al.ptrs[2] = NULL
    THEN init_fault(al.heap_i, "null_write")
    ELSE init_genpoly(build, m, t, a0, al, build_gf_tables(m, poly))

init_alloc(build, m, t, poly, a0) ==
    init_tables(build, m, t, poly, a0,
                alloc_seq(build, a0.heap_i, init_sizes(m, t), <<>>))

\* the part of init_bch after the parameter checks
init_bch_build(build, heap_i, m, t, poly) ==
    init_alloc(build, m, t, poly, bch_alloc(build, heap_i, SizeofBchControl))

init_bch(build, heap_i, m, t, prim_poly) ==
    IF m < min_m \/ m > max_m THEN init_fail(build, heap_i)
    ELSE IF t < 1 THEN init_fail(build, heap_i)
    ELSE IF t > INT_MAX \div m THEN init_fault(heap_i, "signed_overflow")
    ELSE IF m * t >= (2 ^ m) - 1 THEN init_fail(build, heap_i)
    ELSE init_bch_build(build, heap_i, m, t,
                        IF prim_poly = 0 THEN prim_poly_tab[m - min_m + 1] ELSE prim_poly)

\* -------------------------------------------------------------------------
\* encoder
\* -------------------------------------------------------------------------
\* bytes b0 b1 b2 b3 as a little-endian word
LE32(b0, b1, b2, b3) ==
    WOfByte(b3, 24) \cup WOfByte(b2, 16) \cup WOfByte(b1, 8) \cup WOfByte(b0, 0)

\* bytes b0 b1 b2 b3 as a big-endian word
BE32(b0, b1, b2, b3) ==
    WOfByte(b0, 24) \cup WOfByte(b1, 16) \cup WOfByte(b2, 8) \cup WOfByte(b3, 0)

\* load_ecc8 copying one byte less into the last, padded word
load_ecc8_short(bch, src) ==
    LET nwords == BCH_ECC_WORDS(bch) - 1
        npad == BCH_ECC_BYTES(bch) - 4 * nwords - 1
        pad(k) == IF k < npad THEN src[4 * nwords + k] ELSE 0
    IN  Mem([i \in 0..nwords |->
           IF i < nwords
           THEN BE32(src[4 * i], src[4 * i + 1], src[4 * i + 2], src[4 * i + 3])
           ELSE BE32(pad(0), pad(1), pad(2), pad(3))])

\* load_ecc8: src[0..ecc_bytes-1] as zero-padded 32-bit words
load_ecc8(bch, src) ==
    LET nwords == BCH_ECC_WORDS(bch) - 1
        npad == BCH_ECC_BYTES(bch) - 4 * nwords
        pad(k) == IF k < npad THEN src[4 * nwords + k] ELSE 0
    IN  Mem([i \in 0..nwords |->
           IF i < nwords
           THEN BE32(src[4 * i], src[4 * i + 1], src[4 * i + 2], src[4 * i + 3])
           ELSE BE32(pad(0), pad(1), pad(2), pad(3))])

\* store_ecc8 writing each word with its least significant byte first
store_ecc8_le(bch, src) ==
    Mem([k \in 0..(BCH_ECC_BYTES(bch) - 1) |-> WByte(src[k \div 4], 8 * (k % 4))])

\* store_ecc8: the first ecc_bytes bytes of the words of src
store_ecc8(bch, src) ==
    Mem([k \in 0..(BCH_ECC_BYTES(bch) - 1) |-> WByte(src[k \div 4], 24 - 8 * (k % 4))])

\* encode_bch_unaligned: ecc after the bytes data[off..off+len-1]
RECURSIVE encode_bch_unaligned(_, _, _, _, _)
encode_bch_unaligned(bch, data, off, len, ecc) ==
    IF len = 0 THEN ecc
    ELSE LET l == BCH_ECC_WORDS(bch) - 1
             p == (l + 1) * AND(XOR(WByte(ecc[0], 24), data[off]), 255)
             ecc1 == Mem([i \in 0..l |->
                        IF i < l
                        THEN WXor(WShl(ecc[i], 8) \cup WShr(ecc[i + 1], 24),
                                  bch.mod8_tab[p + i])
                        ELSE WXor(WShl(ecc[l], 8), bch.mod8_tab[p + l])])
         IN  encode_bch_unaligned(bch, data, off + 1, len - 1, ecc1)

\* the loop over 32-bit aligned data words: r after mlen words from data[off]
RECURSIVE encode_words(_, _, _, _, _)
encode_words(bch, data, off, mlen, r) ==
    IF mlen = 0 THEN r
    ELSE LET l == BCH_ECC_WORDS(bch) - 1
             w == WXor(r[0], BE32(data[off], data[off + 1], data[off + 2], data[off + 3]))
             tab1 == 256 * (l + 1)
             p0 == (l + 1) * WByte(w, 0)
             p1 == tab1 + (l + 1) * WByte(w, 8)
             p2 == 2 * tab1 + (l + 1) * WByte(w, 16)
             p3 == 3 * tab1 + (l + 1) * WByte(w, 24)
             px(i) == WXor(WXor(bch.mod8_tab[p0 + i], bch.mod8_tab[p1 + i]),
                           WXor(bch.mod8_tab[p2 + i], bch.mod8_tab[p3 + i]))
             r1 == Mem([i \in 0..l |-> IF i < l THEN WXor(r[i + 1], px(i)) ELSE px(l)])
         IN  encode_words(bch, data, off + 4, mlen - 1, r1)

\* encode_bch: [ecc_buf, ecc]
\*   align  the data pointer's address modulo 4
\*   ecc    the caller's parity bytes, or <<>> for a null pointer
encode_bch(bch, data, len, align, ecc) ==
    LET l == BCH_ECC_WORDS(bch) - 1
        buf0 == IF ecc # <<>> THEN load_ecc8(bch, ecc) ELSE Mem([i \in 0..l |-> {}])
        mlen1 == IF align # 0 THEN (IF len < 4 - align THEN len ELSE 4 - align) ELSE 0
        buf1 == encode_bch_unaligned(bch, data, 0, mlen1, buf0)
        len1 == len - mlen1
        mlen2 == len1 \div 4
        buf2 == encode_words(bch, data, mlen1, mlen2, buf1)
        len2 == len1 - 4 * mlen2
        buf3 == encode_bch_unaligned(bch, data, mlen1 + 4 * mlen2, len2, buf2)
    IN  [ecc_buf |-> buf3,
         ecc |-> IF ecc # <<>> THEN store_ecc8(bch, buf3) ELSE <<>>]

\* -------------------------------------------------------------------------
\* compute_syndromes: [ecc, syn]
\* -------------------------------------------------------------------------
\* "while (poly)": XOR a^((j+1)(i+s)) into the even syndromes for each set bit i
RECURSIVE syn_bits(_, _, _, _)
syn_bits(bch, poly, s, syn) ==
    IF poly = {} THEN syn
    ELSE LET i == WDeg(poly)
             syn1 == Mem([j \in DOMAIN syn |->
                        IF j % 2 = 0 THEN XOR(syn[j], a_pow(bch, (j + 1) * (i + s)))
                        ELSE syn[j]])
         IN  syn_bits(bch, poly \ {i}, s, syn1)

\* the do-while over the ecc words; s is the value before "s -= 32"
RECURSIVE syn_words(_, _, _, _, _)
syn_words(bch, ecc, w, s, syn) ==
    LET s1 == s - 32
        syn1 == syn_bits(bch, ecc[w], s1, syn)
    IN  IF s1 > 0 THEN syn_words(bch, ecc, w + 1, s1, syn1) ELSE syn1

\* "syn[2*j+1] = gf_sqr(bch, syn[2*j])": each odd syndrome from its neighbour
syn_squares_next(bch, syn, j) ==
    Mem([k \in DOMAIN syn |-> IF k % 2 = 1 THEN gf_sqr(bch, syn[k - 1]) ELSE syn[k]])

\* "v(a^(2j)) = v(a^j)^2"
RECURSIVE syn_squares(_, _, _)
syn_squares(bch, syn, j) ==
    IF j >= GF_T(bch) THEN syn
    ELSE syn_squares(bch, [syn EXCEPT ![2 * j + 1] = gf_sqr(bch, syn[j])], j + 1)

\* compute_syndromes without "make sure extra bits in last ecc word are
\* cleared"
compute_syndromes_unmasked(bch, ecc) ==
    [ecc |-> ecc,
     syn |-> syn_squares(bch,
                         syn_words(bch, ecc, 0, bch.ecc_bits,
                                   Mem([j \in 0..(2 * GF_T(bch) - 1) |-> 0])),
                         0)]

compute_syndromes(bch, ecc) ==
    LET s == bch.ecc_bits
        m == s % 32
        ecc1 == IF m # 0
                THEN [ecc EXCEPT ![s \div 32] = @ \cap ((32 - m)..31)]
                ELSE ecc
        syn0 == Mem([j \in 0..(2 * GF_T(bch) - 1) |-> 0])
    IN  [ecc |-> ecc1,
         syn |-> syn_squares(bch, syn_words(bch, ecc1, 0, s, syn0), 0)]

\* -------------------------------------------------------------------------
\* struct gf_poly in the polynomial scratch pm: p is the address of a
\* polynomial (in unsigned int units), pm[p] its deg, pm[p+1+j] its c[j]
\* -------------------------------------------------------------------------
PDeg(pm, p) == pm[p]

PC(pm, p, j) == pm[p + 1 + j]

\* bch_memset(p, 0, 4 * nwords)
poly_memset(pm, p, nwords) ==
    Mem([i \in DOMAIN pm |-> IF i >= p /\ i < p + nwords THEN 0 ELSE pm[i]])

gf_poly_copy(pm, dst, src) ==
    Mem([i \in DOMAIN pm |->
       IF i >= dst /\ i < dst + (GF_POLY_SZ(PDeg(pm, src)) \div 4)
       THEN pm[src + (i - dst)] ELSE pm[i]])

\* -------------------------------------------------------------------------
\* compute_error_locator_polynomial: [ret, pm]
\* -------------------------------------------------------------------------
\* "di+1 = S(2i+3)+elp[i+1].1*S(2i+2)+...": the next discrepancy
RECURSIVE elp_discrepancy(_, _, _, _, _, _)
elp_discrepancy(bch, syn, pm, i, j, d) ==
    IF j > PDeg(pm, ELP) THEN d
    ELSE elp_discrepancy(bch, syn, pm, i, j + 1,
                         XOR(d, gf_mul(bch, PC(pm, ELP, j), syn[2 * i + 2 - j])))

\* the step with "pp = 2*i + 1" for "pp = 2*i"
elp_update_late(bch, pm, i, d, pd, pp) ==
    LET pelp == POLY_2T(GF_T(bch), 0)
        elp_copy == POLY_2T(GF_T(bch), 1)
        k == 2 * i - pp
        pm1 == gf_poly_copy(pm, elp_copy, ELP)
        tmp == a_log(bch, d) + GF_N(bch) - a_log(bch, pd)
        pm2 == Mem([a \in DOMAIN pm1 |->
                  LET j == a - (ELP + 1) - k
                  IN  IF j >= 0 /\ j <= PDeg(pm1, pelp) /\ PC(pm1, pelp, j) # 0
                      THEN XOR(pm1[a], a_pow(bch, tmp + a_log(bch, PC(pm1, pelp, j))))
                      ELSE pm1[a]])
        tmp2 == PDeg(pm2, pelp) + k
    IN  IF tmp2 > PDeg(pm2, ELP)
        THEN [pm |-> gf_poly_copy([pm2 EXCEPT ![ELP] = tmp2], pelp, elp_copy),
              pd |-> d, pp |-> 2 * i + 1]
        ELSE [pm |-> pm2, pd |-> pd, pp |-> pp]

\* one step "if (d)" of the Berlekamp-Massey loop: [pm, pd, pp]
elp_update(bch, pm, i, d, pd, pp) ==
    LET pelp == POLY_2T(GF_T(bch), 0)
        elp_copy == POLY_2T(GF_T(bch), 1)
        k == 2 * i - pp
        pm1 == gf_poly_copy(pm, elp_copy, ELP)
        tmp == a_log(bch, d) + GF_N(bch) - a_log(bch, pd)
        pm2 == Mem([a \in DOMAIN pm1 |->
                  LET j == a - (ELP + 1) - k
                  IN  IF j >= 0 /\ j <= PDeg(pm1, pelp) /\ PC(pm1, pelp, j) # 0
                      THEN XOR(pm1[a], a_pow(bch, tmp + a_log(bch, PC(pm1, pelp, j))))
                      ELSE pm1[a]])
        tmp2 == PDeg(pm2, pelp) + k
    IN  IF tmp2 > PDeg(pm2, ELP)
        THEN [pm |-> gf_poly_copy([pm2 EXCEPT ![ELP] = tmp2], pelp, elp_copy),
              pd |-> d, pp |-> 2 * i]
        ELSE [pm |-> pm2, pd |-> pd, pp |-> pp]

RECURSIVE elp_loop(_, _, _, _, _, _, _)
elp_loop(bch, syn, pm, i, d, pd, pp) ==
    LET t == GF_T(bch) IN
    IF ~(i < t /\ PDeg(pm, ELP) <= t)
    THEN [ret |-> IF PDeg(pm, ELP) > t THEN -1 ELSE PDeg(pm, ELP), pm |-> pm]
    ELSE LET u == IF d # 0 THEN elp_update(bch, pm, i, d, pd, pp)
                  ELSE [pm |-> pm, pd |-> pd, pp |-> pp]
             d1 == IF i < t - 1
                   THEN elp_discrepancy(bch, syn, u.pm, i, 1, syn[2 * i + 2])
                   ELSE d
         IN  elp_loop(bch, syn, u.pm, i + 1, d1, u.pd, u.pp)

compute_error_locator_polynomial(bch, syn, pm) ==
    LET t == GF_T(bch)
        pelp == POLY_2T(t, 0)
        pm1 == poly_memset(pm, pelp, GF_POLY_SZ(2 * t) \div 4)
        pm2 == poly_memset(pm1, ELP, GF_POLY_SZ(2 * t) \div 4)
        pm3 == [pm2 EXCEPT ![pelp] = 0, ![pelp + 1] = 1, ![ELP] = 0, ![ELP + 1] = 1]
    IN  elp_loop(bch, syn, pm3, 0, syn[0], 1, -1)

\* -------------------------------------------------------------------------
\* solve_linear_system: the solutions written to sol[], <<>> when it returns 0
\* -------------------------------------------------------------------------
\* parity of the set bits of x
RECURSIVE parity(_)
parity(x) == IF x = 0 THEN 0 ELSE ((x % 2) + parity(x \div 2)) % 2

\* the first row r >= p with rows[r] & mask, or m
RECURSIVE find_row(_, _, _, _)
find_row(rows, m, mask, r) ==
    IF r >= m THEN m
    ELSE IF AND(rows[r], mask) # 0 THEN r
    ELSE find_row(rows, m, mask, r + 1)

\* Gaussian elimination: [rows, param], param the defective columns in order
RECURSIVE gauss(_, _, _, _, _)
gauss(m, rows, c, mask, param) ==
    IF c >= m THEN [rows |-> rows, param |-> param]
    ELSE LET k == Len(param)
             p == c - k
             r == find_row(rows, m, mask, p)
         IN  IF r < m
             THEN LET swapped == [rows EXCEPT ![r] = rows[p], ![p] = rows[r]]
                      tmp == swapped[p]
                      elim == Mem([q \in DOMAIN rows |->
                                 IF q >= r + 1 /\ q < m /\ AND(swapped[q], mask) # 0
                                 THEN XOR(swapped[q], tmp) ELSE swapped[q]])
                  IN  gauss(m, elim, c + 1, mask \div 2, param)
             ELSE gauss(m, rows, c + 1, mask \div 2, Append(param, c))

\* "rewrite system, inserting fake parameter rows": [ok, rows]
RECURSIVE rewrite_rows(_, _, _, _, _, _)
rewrite_rows(m, k, param, rows, r, p) ==
    IF r < 0 THEN [ok |-> TRUE, rows |-> rows]
    ELSE IF r > m - 1 - k /\ rows[r] # 0 THEN [ok |-> FALSE, rows |-> rows]
    ELSE IF p # 0 /\ r = param[p]
    THEN rewrite_rows(m, k, param, [rows EXCEPT ![r] = 2 ^ (m - r)], r - 1, p - 1)
    ELSE rewrite_rows(m, k, param, [rows EXCEPT ![r] = rows[r - p]], r - 1, p)

\* "set parameters for p-th solution"
RECURSIVE set_params(_, _, _, _)
set_params(rows, param, p, c) ==
    IF c >= Len(param) THEN rows
    ELSE set_params([rows EXCEPT ![param[c + 1]] =
                        (@ - (@ % 2)) + ((p \div (2 ^ c)) % 2)],
                    param, p, c + 1)

\* "compute unique solution": tmp after rows m-1 .. 0
RECURSIVE back_subst(_, _, _, _)
back_subst(m, rows, r, tmp) ==
    IF r < 0 THEN tmp
    ELSE LET mask == AND(rows[r], tmp + (1 - (tmp % 2)))
         IN  back_subst(m, rows, r - 1, tmp + parity(mask) * (2 ^ (m - r)))

RECURSIVE solutions(_, _, _, _, _, _)
solutions(m, rows, param, nsol, p, sol) ==
    IF p >= nsol THEN sol
    ELSE LET rows1 == set_params(rows, param, p, 0)
         IN  solutions(m, rows1, param, nsol, p + 1,
                       Append(sol, back_subst(m, rows1, m - 1, 0) \div 2))

solve_linear_system(bch, rows, nsol) ==
    LET m == GF_M(bch)
        g == gauss(m, rows, 0, 2 ^ m, <<>>)
        k == Len(g.param)
        rw == IF k > 0 THEN rewrite_rows(m, k, g.param, g.rows, m - 1, k)
              ELSE [ok |-> TRUE, rows |-> g.rows]
    IN  IF ~rw.ok THEN <<>>
        ELSE IF nsol # 2 ^ k THEN <<>>
        ELSE solutions(m, rw.rows, g.param, nsol, 0, <<>>)

\* -------------------------------------------------------------------------
\* find_affine4_roots: the roots of X^4+aX^2+bX+c written, <<>> on return 0
\* -------------------------------------------------------------------------
\* one pass "for (k = 0; k < 16; k = (k+j+1) & ~j)" of the transposition
RECURSIVE transpose_pass(_, _, _, _)
transpose_pass(rows, j, mask, k) ==
    IF k >= 16 THEN rows
    ELSE LET t == AND(XOR(SHR(rows[k], j), rows[k + j]), mask)
             rows1 == [rows EXCEPT ![k] = XOR(rows[k], SHL(t, j)),
                                   ![k + j] = XOR(rows[k + j], t)]
             k1 == k + j + 1
         IN  transpose_pass(rows1, j, mask, k1 - j * BIT(k1, deg(j)))

RECURSIVE transpose16(_, _, _)
transpose16(rows, j, mask) ==
    IF j = 0 THEN rows
    ELSE LET j1 == j \div 2
         IN  transpose16(transpose_pass(rows, j, mask, 0), j1, XOR(mask, SHL(mask, j1)))

\* find_affine4_roots building its rows without the term a X^2
find_affine4_roots_no_a(bch, a, b, c) ==
    LET m == GF_M(bch)
        j == a_log(bch, b)
        rows == Mem([r \in 0..15 |->
                   IF r = 0 THEN c
                   ELSE IF r <= m
                   THEN LET i == r - 1
                        IN  XOR(bch.a_pow_tab[4 * i],
                                IF b # 0 THEN bch.a_pow_tab[mod_s(bch, j + i)] ELSE 0)
                   ELSE 0])
    IN  solve_linear_system(bch, transpose16(rows, 8, 255), 4)

find_affine4_roots(bch, a, b, c) ==
    LET m == GF_M(bch)
        j == a_log(bch, b)
        k == a_log(bch, a)
        rows == Mem([r \in 0..15 |->
                   IF r = 0 THEN c
                   ELSE IF r <= m
                   THEN LET i == r - 1
                        IN  XOR(XOR(bch.a_pow_tab[4 * i],
                                    IF a # 0 THEN bch.a_pow_tab[mod_s(bch, k + 2 * i)] ELSE 0),
                                IF b # 0 THEN bch.a_pow_tab[mod_s(bch, j + i)] ELSE 0)
                   ELSE 0])
    IN  solve_linear_system(bch, transpose16(rows, 8, 255), 4)

\* -------------------------------------------------------------------------
\* roots of polynomials of degree 1 .. 4: the sequence of values stored to
\* roots[0], roots[1], ... (its length is the returned count)
\* -------------------------------------------------------------------------
\* the logarithm of the root c0/c1 itself, not that of its inverse
find_poly_deg1_roots_direct(bch, pm, poly) ==
    IF PC(pm, poly, 0) # 0
    THEN << mod_s(bch, GF_N(bch) - bch.a_log_tab[PC(pm, poly, 1)]
                       + bch.a_log_tab[PC(pm, poly, 0)]) >>
    ELSE <<>>

\* the value n - log(c0) + log(c1) stored without mod_s
find_poly_deg1_roots_unreduced(bch, pm, poly) ==
    IF PC(pm, poly, 0) # 0
    THEN << GF_N(bch) - bch.a_log_tab[PC(pm, poly, 0)] + bch.a_log_tab[PC(pm, poly, 1)] >>
    ELSE <<>>

find_poly_deg1_roots(bch, pm, poly) ==
    IF PC(pm, poly, 0) # 0
    THEN << mod_s(bch, GF_N(bch) - bch.a_log_tab[PC(pm, poly, 0)]
                       + bch.a_log_tab[PC(pm, poly, 1)]) >>
    ELSE <<>>

\* "while (v) { i = deg(v); r ^= xi_tab[i]; v ^= (1 << i); }"
RECURSIVE deg2_r(_, _, _)
deg2_r(bch, v, r) ==
    IF v = 0 THEN r
    ELSE LET i == deg(v)
         IN  deg2_r(bch, v - 2 ^ i, XOR(r, bch.xi_tab[i]))

\* find_poly_deg2_roots storing the root that belongs to r twice
find_poly_deg2_roots_twice(bch, pm, poly) ==
    IF PC(pm, poly, 0) # 0 /\ PC(pm, poly, 1) # 0
    THEN LET l0 == bch.a_log_tab[PC(pm, poly, 0)]
             l1 == bch.a_log_tab[PC(pm, poly, 1)]
             l2 == bch.a_log_tab[PC(pm, poly, 2)]
             u == a_pow(bch, l0 + l2 + 2 * (GF_N(bch) - l1))
             r == deg2_r(bch, u, 0)
         IN  IF XOR(gf_sqr(bch, r), r) = u
             THEN << modulo(bch, 2 * GF_N(bch) - l1 - bch.a_log_tab[r] + l2),
                     modulo(bch, 2 * GF_N(bch) - l1 - bch.a_log_tab[r] + l2) >>
             ELSE <<>>
    ELSE <<>>

find_poly_deg2_roots(bch, pm, poly) ==
    IF PC(pm, poly, 0) # 0 /\ PC(pm, poly, 1) # 0
    THEN LET l0 == bch.a_log_tab[PC(pm, poly, 0)]
             l1 == bch.a_log_tab[PC(pm, poly, 1)]
             l2 == bch.a_log_tab[PC(pm, poly, 2)]
             u == a_pow(bch, l0 + l2 + 2 * (GF_N(bch) - l1))
             r == deg2_r(bch, u, 0)
         IN  IF XOR(gf_sqr(bch, r), r) = u
             THEN << modulo(bch, 2 * GF_N(bch) - l1 - bch.a_log_tab[r] + l2),
                     modulo(bch, 2 * GF_N(bch) - l1 - bch.a_log_tab[XOR(r, 1)] + l2) >>
             ELSE <<>>
    ELSE <<>>

\* the logarithms of the roots in vals
ilog_roots(bch, vals) == Mem([i \in 1..Len(vals) |-> a_ilog(bch, vals[i])])

\* the four roots of the affine polynomial, a2 not removed
deg3_keep_all(bch, a2, tmp) ==
    IF Len(tmp) = 4 THEN ilog_roots(bch, tmp) ELSE <<>>

\* "remove a2 from final list of roots"; tmp are the roots of the affine
\* monic polynomial
deg3_keep(bch, a2, tmp) ==
    IF Len(tmp) = 4 THEN ilog_roots(bch, SelectSeq(tmp, LAMBDA x : x # a2))
    ELSE <<>>

\* find_poly_deg3_roots with the monic coefficients a2, b2, c2
deg3_monic(bch, a2, b2, c2) ==
    deg3_keep(bch, a2,
              find_affine4_roots(bch, XOR(gf_sqr(bch, a2), b2),
                                 XOR(gf_mul(bch, a2, b2), c2), gf_mul(bch, a2, c2)))

find_poly_deg3_roots(bch, pm, poly) ==
    IF PC(pm, poly, 0) # 0
    THEN deg3_monic(bch, gf_div(bch, PC(pm, poly, 2), PC(pm, poly, 3)),
                    gf_div(bch, PC(pm, poly, 1), PC(pm, poly, 3)),
                    gf_div(bch, PC(pm, poly, 0), PC(pm, poly, 3)))
    ELSE <<>>

\* "post-process roots": sol are the roots of the affine polynomial
deg4_post(bch, a, e, sol) ==
    IF Len(sol) = 4
    THEN Mem([i \in 1..4 |->
            a_ilog(bch, XOR(IF a # 0 THEN gf_inv(bch, sol[i]) ELSE sol[i], e))])
    ELSE <<>>

\* X^4 + aX^3 + bX^2 + cX + d after the change of variable X -> X + e
deg4_affine(bch, a, b, c, d, e) ==
    IF a # 0 /\ d = 0 THEN <<>>
    ELSE deg4_post(bch, a, e,
                   find_affine4_roots(bch,
                                      IF a # 0 THEN gf_div(bch, b, d) ELSE b,
                                      IF a # 0 THEN gf_div(bch, a, d) ELSE c,
                                      IF a # 0 THEN gf_inv(bch, d) ELSE d))

\* "first, eliminate cX by using z=X+e with ae^2+c=0"; l is the even
\* logarithm of f = c/a
deg4_shift(bch, a, b, c, d, f, l) ==
    deg4_affine(bch, a, XOR(gf_mul(bch, a, a_pow(bch, l \div 2)), b), c,
                XOR(XOR(a_pow(bch, 2 * l), gf_mul(bch, b, f)), d),
                a_pow(bch, l \div 2))

\* "l = a_log(bch, f); l += (l & 1) ? GF_N(bch) : 0"
deg4_even_log(bch, l) == l + (IF l % 2 = 1 THEN GF_N(bch) ELSE 0)

\* find_poly_deg4_roots with the monic coefficients a, b, c, d
deg4_monic(bch, a, b, c, d) ==
    IF a # 0 /\ c # 0
    THEN deg4_shift(bch, a, b, c, d, gf_div(bch, c, a),
                    deg4_even_log(bch, a_log(bch, gf_div(bch, c, a))))
    ELSE deg4_affine(bch, a, b, c, d, 0)

find_poly_deg4_roots(bch, pm, poly) ==
    IF PC(pm, poly, 0) = 0 THEN <<>>
    ELSE deg4_monic(bch, gf_div(bch, PC(pm, poly, 3), PC(pm, poly, 4)),
                    gf_div(bch, PC(pm, poly, 2), PC(pm, poly, 4)),
                    gf_div(bch, PC(pm, poly, 1), PC(pm, poly, 4)),
                    gf_div(bch, PC(pm, poly, 0), PC(pm, poly, 4)))

\* -------------------------------------------------------------------------
\* polynomial arithmetic on the scratch polynomials (pm) and bch->cache
\* -------------------------------------------------------------------------
gf_poly_logrep(bch, pm, a, rep) ==
    LET d == PDeg(pm, a)
        l == GF_N(bch) - a_log(bch, PC(pm, a, d))
    IN  Mem([i \in DOMAIN rep |->
           IF i < d
           THEN (IF PC(pm, a, i) # 0
                 THEN mod_s(bch, a_log(bch, PC(pm, a, i)) + l) ELSE -1)
           ELSE rep[i]])

\* "for (j = a->deg; j >= d; j--)" of gf_poly_mod
RECURSIVE poly_mod_loop(_, _, _, _, _, _)
poly_mod_loop(bch, pm, a, d, rep, j) ==
    IF j < d THEN pm
    ELSE IF PC(pm, a, j) = 0 THEN poly_mod_loop(bch, pm, a, d, rep, j - 1)
    ELSE LET la == a_log(bch, PC(pm, a, j))
             base == a + 1 + j - d
             pm1 == Mem([x \in DOMAIN pm |->
                       IF x >= base /\ x < base + d /\ rep[x - base] >= 0
                       THEN XOR(pm[x], bch.a_pow_tab[mod_s(bch, rep[x - base] + la)])
                       ELSE pm[x]])
         IN  poly_mod_loop(bch, pm1, a, d, rep, j - 1)

\* "if (!c[a->deg] && a->deg) a->deg--": one step only
trim_deg_once(pm, a, d) ==
    IF PC(pm, a, d) = 0 /\ d # 0 THEN d - 1 ELSE d

\* "while (!c[a->deg] && a->deg) a->deg--"
RECURSIVE trim_deg(_, _, _)
trim_deg(pm, a, d) ==
    IF PC(pm, a, d) = 0 /\ d # 0 THEN trim_deg(pm, a, d - 1) ELSE d

\* rep_given: the caller passed bch->cache as rep (otherwise NULL)
gf_poly_mod(bch, pm, cache, a, b, rep_given) ==
    LET d == PDeg(pm, b)
    IN  IF PDeg(pm, a) < d THEN [pm |-> pm, cache |-> cache]
        ELSE LET rep == IF rep_given THEN cache ELSE gf_poly_logrep(bch, pm, b, cache)
                 pm1 == poly_mod_loop(bch, pm, a, d, rep, PDeg(pm, a))
             IN  [pm |-> [pm1 EXCEPT ![a] = trim_deg(pm1, a, d - 1)], cache |-> rep]

gf_poly_div(bch, pm, cache, a, b, q) ==
    IF PDeg(pm, a) >= PDeg(pm, b)
    THEN LET qd == PDeg(pm, a) - PDeg(pm, b)
             r == gf_poly_mod(bch, [pm EXCEPT ![q] = qd], cache, a, b, FALSE)
             bd == PDeg(r.pm, b)
         IN  [pm |-> Mem([x \in DOMAIN pm |->
                        IF x >= q + 1 /\ x <= q + 1 + qd
                        THEN r.pm[a + 1 + bd + (x - (q + 1))] ELSE r.pm[x]]),
              cache |-> r.cache]
    ELSE [pm |-> [pm EXCEPT ![q] = 0, ![q + 1] = 0], cache |-> cache]

RECURSIVE gcd_loop(_, _, _, _, _)
gcd_loop(bch, pm, cache, a, b) ==
    IF PDeg(pm, b) > 0
    THEN LET r == gf_poly_mod(bch, pm, cache, a, b, FALSE)
         IN  gcd_loop(bch, r.pm, r.cache, b, a)
    ELSE [pm |-> pm, cache |-> cache, gcd |-> a]

gf_poly_gcd(bch, pm, cache, a, b) ==
    IF PDeg(pm, a) < PDeg(pm, b) THEN gcd_loop(bch, pm, cache, b, a)
    ELSE gcd_loop(bch, pm, cache, a, b)

\* one round "for (j = z->deg; j >= 0; j--)" of compute_trace_bk_mod
trace_round(bch, pm, z, out) ==
    LET zd == PDeg(pm, z)
    IN  Mem([x \in DOMAIN pm |->
           IF x >= out + 1 /\ x <= out + 1 + zd
           THEN XOR(pm[x], pm[z + 1 + (x - (out + 1))])
           ELSE IF x >= z + 1 /\ x <= z + 1 + 2 * zd + 1
           THEN (IF (x - (z + 1)) % 2 = 0
                 THEN gf_sqr(bch, pm[z + 1 + ((x - (z + 1)) \div 2)]) ELSE 0)
           ELSE pm[x]])

\* one iteration "for (i = 0; i < m; i++)" of compute_trace_bk_mod: pm
trace_step(bch, pm, cache, f, z, i) ==
    LET out == POLY_2T(GF_T(bch), 2)
        zd == PDeg(pm, z)
        pm1 == trace_round(bch, pm, z, out)
        pm2 == IF zd > PDeg(pm1, out) THEN [pm1 EXCEPT ![out] = zd] ELSE pm1
    IN  IF i < GF_M(bch) - 1
        THEN gf_poly_mod(bch, [pm2 EXCEPT ![z] = 2 * zd], cache, z, f, TRUE).pm
        ELSE pm2

RECURSIVE trace_loop(_, _, _, _, _, _)
trace_loop(bch, pm, cache, f, z, i) ==
    IF i >= GF_M(bch) THEN pm
    ELSE trace_loop(bch, trace_step(bch, pm, cache, f, z, i), cache, f, z, i + 1)

\* compute_trace_bk_mod up to its loop: z = a^k X, out = 0 and the log
\* representation of f in bch->cache
trace_start(bch, pm, cache, k, f) ==
    LET z == POLY_2T(GF_T(bch), 3)
        out == POLY_2T(GF_T(bch), 2)
        pm1 == [pm EXCEPT ![z] = 1, ![z + 1] = 0, ![z + 2] = bch.a_pow_tab[k]]
        pm2 == poly_memset([pm1 EXCEPT ![out] = 0], out, GF_POLY_SZ(PDeg(pm1, f)) \div 4)
    IN  [pm |-> pm2, cache |-> gf_poly_logrep(bch, pm2, f, cache)]

\* compute_trace_bk_mod with z = poly_2t[3] and out = poly_2t[2]: [pm, cache]
compute_trace_bk_mod(bch, pm, cache, k, f) ==
    LET z == POLY_2T(GF_T(bch), 3)
        out == POLY_2T(GF_T(bch), 2)
        st == trace_start(bch, pm, cache, k, f)
        pm3 == trace_loop(bch, st.pm, st.cache, f, z, 0)
    IN  [pm |-> [pm3 EXCEPT ![out] = trim_deg(pm3, out, PDeg(pm3, out))],
         cache |-> st.cache]

\* "f splits": g = f / gcd is left at f and h = gcd behind it; dv is
\* gf_poly_div(bch, f, gcd, q)
factor_split(f, q, gc, dv) ==
    LET h == f + GfPolyDeg1Words * PDeg(dv.pm, gc.gcd)
    IN  [pm |-> gf_poly_copy(gf_poly_copy(dv.pm, f, gc.gcd), h, q),
         cache |-> dv.cache, g |-> f, h |-> h]

\* after "gcd = gf_poly_gcd(bch, f2, tk)"
factor_gcd(bch, f, q, gc) ==
    IF PDeg(gc.pm, gc.gcd) < PDeg(gc.pm, f)
    THEN factor_split(f, q, gc, gf_poly_div(bch, gc.pm, gc.cache, f, gc.gcd, q))
    ELSE [pm |-> gc.pm, cache |-> gc.cache, g |-> f, h |-> NULL]

\* after "compute_trace_bk_mod(bch, k, f, z, tk)"
factor_trace(bch, f, tr) ==
    LET f2 == POLY_2T(GF_T(bch), 0)
        q == POLY_2T(GF_T(bch), 1)
        tk == POLY_2T(GF_T(bch), 2)
    IN  IF PDeg(tr.pm, tk) > 0
        THEN factor_gcd(bch, f, q,
                        gf_poly_gcd(bch, gf_poly_copy(tr.pm, f2, f), tr.cache, f2, tk))
        ELSE [pm |-> tr.pm, cache |-> tr.cache, g |-> f, h |-> NULL]

\* factor_polynomial: [pm, cache, g, h], h = NULL when f is not split
factor_polynomial(bch, pm, cache, k, f) ==
    factor_trace(bch, f, compute_trace_bk_mod(bch, pm, cache, k, f))

\* roots[off], roots[off+1], ... = vals
store_roots(roots, off, vals) ==
    Mem([i \in DOMAIN roots |->
       IF i >= off /\ i < off + Len(vals) THEN vals[i - off + 1] ELSE roots[i]])

\* a closed-form root finder has returned vals
low_roots(pm, cache, roots, off, vals) ==
    [pm |-> pm, cache |-> cache, roots |-> store_roots(roots, off, vals),
     cnt |-> Len(vals)]

\* "cnt += find_poly_roots(bch, k+1, f2, roots+cnt)"
add_cnt(cnt, r2) == [r2 EXCEPT !.cnt = cnt + r2.cnt]

RECURSIVE find_poly_roots(_, _, _, _, _, _, _)
\* after "cnt += find_poly_roots(bch, k+1, f1, roots)" has returned r1
roots_of_h(bch, k, off, fp, r1) ==
    IF fp.h # NULL
    THEN add_cnt(r1.cnt, find_poly_roots(bch, r1.pm, r1.cache, k + 1, fp.h,
                                         r1.roots, off + r1.cnt))
    ELSE r1

\* after "factor_polynomial(bch, k, poly, &f1, &f2)" has returned fp
roots_of_factors(bch, k, roots, off, fp) ==
    roots_of_h(bch, k, off, fp,
               find_poly_roots(bch, fp.pm, fp.cache, k + 1, fp.g, roots, off))

\* find_poly_roots factoring with k = 1 only: "if (poly->deg && (k <= 1))"
find_poly_roots_once(bch, pm, cache, k, poly, roots, off) ==
    LET dg == PDeg(pm, poly)
    IN  IF dg = 1 THEN low_roots(pm, cache, roots, off, find_poly_deg1_roots(bch, pm, poly))
        ELSE IF dg = 2
        THEN low_roots(pm, cache, roots, off, find_poly_deg2_roots(bch, pm, poly))
        ELSE IF dg = 3
        THEN low_roots(pm, cache, roots, off, find_poly_deg3_roots(bch, pm, poly))
        ELSE IF dg = 4
        THEN low_roots(pm, cache, roots, off, find_poly_deg4_roots(bch, pm, poly))
        ELSE IF dg # 0 /\ k <= 1
        THEN roots_of_factors(bch, k, roots, off,
                              factor_polynomial(bch, pm, cache, k, poly))
        ELSE low_roots(pm, cache, roots, off, <<>>)

\* find_poly_roots(bch, k, poly, roots + off): [pm, cache, roots, cnt]
find_poly_roots(bch, pm, cache, k, poly, roots, off) ==
    LET dg == PDeg(pm, poly)
    IN  IF dg = 1 THEN low_roots(pm, cache, roots, off, find_poly_deg1_roots(bch, pm, poly))
        ELSE IF dg = 2
        THEN low_roots(pm, cache, roots, off, find_poly_deg2_roots(bch, pm, poly))
        ELSE IF dg = 3
        THEN low_roots(pm, cache, roots, off, find_poly_deg3_roots(bch, pm, poly))
        ELSE IF dg = 4
        THEN low_roots(pm, cache, roots, off, find_poly_deg4_roots(bch, pm, poly))
        ELSE IF dg # 0 /\ k <= GF_M(bch)
        THEN roots_of_factors(bch, k, roots, off,
                              factor_polynomial(bch, pm, cache, k, poly))
        ELSE low_roots(pm, cache, roots, off, <<>>)

\* -------------------------------------------------------------------------
\* decode_bch
\* -------------------------------------------------------------------------
\* a pointer argument: absent (NULL) or pointing at the array v
NullPtr == [null |-> TRUE]

Ptr(v) == [null |-> FALSE, v |-> v]

\* decode_bch's intermediate results: err, the value of
\* compute_error_locator_polynomial, and nroots and roots, the value of
\* find_poly_roots and errloc as it has left it
NoRaw == [err |-> 0, nroots |-> 0, roots |-> <<>>]

\* the post-processing without its range check
RECURSIVE post_process_unchecked(_, _, _, _)
post_process_unchecked(errloc, nbits, err, i) ==
    IF i >= err THEN [err |-> err, errloc |-> errloc]
    ELSE LET s == nbits - 1 - errloc[i]
         IN  post_process_unchecked([errloc EXCEPT ![i] = (s - (s % 8)) + (7 - (s % 8))],
                                    nbits, err, i + 1)

\* "post-process raw error locations": [err, errloc]
RECURSIVE post_process(_, _, _, _)
post_process(errloc, nbits, err, i) ==
    IF i >= err THEN [err |-> err, errloc |-> errloc]
    ELSE IF errloc[i] >= nbits THEN [err |-> -1, errloc |-> errloc]
    ELSE LET s == nbits - 1 - errloc[i]
         IN  post_process([errloc EXCEPT ![i] = (s - (s % 8)) + (7 - (s % 8))],
                          nbits, err, i + 1)

\* "return (err >= 0) ? err : -EBADMSG", pp being the post-processed errloc
decode_ret(bch, lp, fr, pp) ==
    [ret |-> IF pp.err >= 0 THEN pp.err ELSE -EBADMSG,
     errloc |-> pp.errloc,
     bch |-> [bch EXCEPT !.pm = fr.pm, !.cache = fr.cache],
     raw |-> [err |-> lp.ret, nroots |-> fr.cnt, roots |-> fr.roots]]

\* "if (nroots != err) err = -1" and the post-processing of the raw roots fr
decode_post(bch, len, lp, fr) ==
    LET err1 == IF lp.ret > 0 /\ lp.ret # fr.cnt THEN -1 ELSE lp.ret
    IN  decode_ret(bch, lp, fr,
                   IF err1 > 0
                   THEN post_process(fr.roots, len * 8 + bch.ecc_bits, err1, 0)
                   ELSE [err |-> err1, errloc |-> fr.roots])

\* "if (err > 0) nroots = find_poly_roots(bch, 1, bch->elp, errloc)"
decode_roots(bch, len, errloc, lp) ==
    decode_post(bch, len, lp,
                IF lp.ret > 0
                THEN find_poly_roots(bch, lp.pm, bch.cache, 1, ELP, errloc, 0)
                ELSE [pm |-> lp.pm, cache |-> bch.cache, roots |-> errloc, cnt |-> 0])

\* decode_bch from compute_error_locator_polynomial on: [ret, errloc, bch, raw]
decode_syn(bch, len, syn, errloc) ==
    decode_roots(bch, len, errloc, compute_error_locator_polynomial(bch, syn, bch.pm))

\* the check of Linux's lib/bch.c, which counts the data in bits
len_too_large_bits(bch, len) == 8 * len > bch.n - bch.ecc_bits

\* "sanity check: make sure data length can be handled"
len_too_large(bch, len) == len > (bch.n - bch.ecc_bits + 7) \div 8

\* "compute syndromes": ecc_buf holds the xor of received and calculated ecc
decode_sum(bch1, len, errloc, cs) ==
    decode_syn([bch1 EXCEPT !.ecc_buf = cs.ecc, !.syn = cs.syn], len, cs.syn, errloc)

\* after the two ecc words are loaded and summed into ecc_buf
decode_loaded(bch1, len, recv_given, errloc) ==
    IF recv_given /\ \A i \in DOMAIN bch1.ecc_buf : bch1.ecc_buf[i] = {}
    THEN [ret |-> 0, errloc |-> errloc, bch |-> bch1, raw |-> NoRaw]
    ELSE decode_sum(bch1, len, errloc, compute_syndromes(bch1, bch1.ecc_buf))

\* "load received ecc or assume it was XORed in calc_ecc"; buf0 is the
\* calculated ecc in ecc_buf
decode_recv(bch, len, recv_ecc, errloc, buf0, buf2) ==
    decode_loaded([bch EXCEPT
                      !.ecc_buf = IF recv_ecc.null THEN buf0
                                  ELSE Mem([i \in DOMAIN buf0 |-> WXor(buf0[i], buf2[i])]),
                      !.ecc_buf2 = buf2],
                  len, ~recv_ecc.null, errloc)

\* decode_bch: [ret, errloc, bch, raw]; align is the data pointer's address
\* mod 4
decode_bch(bch, data, len, align, recv_ecc, calc_ecc, syn, errloc) ==
    IF len_too_large(bch, len)
    THEN [ret |-> -EINVAL, errloc |-> errloc, bch |-> bch, raw |-> NoRaw]
    ELSE IF ~syn.null THEN decode_syn(bch, len, syn.v, errloc)
    ELSE IF calc_ecc.null /\ (data.null \/ recv_ecc.null)
    THEN [ret |-> -EINVAL, errloc |-> errloc, bch |-> bch, raw |-> NoRaw]
    ELSE decode_recv(bch, len, recv_ecc, errloc,
                     IF calc_ecc.null
                     THEN encode_bch(bch, data.v, len, align, <<>>).ecc_buf
                     ELSE load_ecc8(bch, calc_ecc.v),
                     IF recv_ecc.null THEN bch.ecc_buf2
                     ELSE load_ecc8(bch, recv_ecc.v))

\* -------------------------------------------------------------------------
\* the bit-oriented API: data and ecc are arrays with one bit per byte
\* -------------------------------------------------------------------------
\* "ndatabytes = (K+7)/8" with K = n - ecc_bits
DataBytes(bch) == (bch.n - bch.ecc_bits + 7) \div 8

\* "nPad = ndatabytes*8 - K"
NPad(bch) == DataBytes(bch) * 8 - (bch.n - bch.ecc_bits)

\* check_databuf after its bch_alloc has returned a
databuf_alloc(bch, a) ==
    [bch |-> [bch EXCEPT !.ptr.databuf = a.ptr,
                         !.databuf = IF a.ptr = NULL THEN <<>>
                                     ELSE Mem([i \in 0..(DataBytes(bch) + bch.ecc_bytes - 1)
                                                 |-> UNINIT])],
     heap_i |-> a.heap_i]

\* check_databuf: [bch, heap_i]
check_databuf(build, heap_i, bch) ==
    IF bch.ptr.databuf = NULL
    THEN databuf_alloc(bch, bch_alloc(build, heap_i, DataBytes(bch) + bch.ecc_bytes))
    ELSE [bch |-> bch, heap_i |-> heap_i]

\* the mask "1 << (7 - (i & 7))" if the least significant bit of v is set
MaskIf(v, i) == IF v % 2 = 1 THEN 2 ^ (7 - (i % 8)) ELSE 0

\* the byte j of databuf after pack_databuf: the bit i = k + nPad of the
\* buffer is the least significant bit of data[k]
PackedDataByte(bch, data, j, q) ==
    IF 8 * j + q >= NPad(bch) THEN MaskIf(data[8 * j + q - NPad(bch)], q) ELSE 0

\* pack_databuf: databuf (the buffer exists)
pack_databuf(bch, data) ==
    Mem([j \in DOMAIN bch.databuf |->
           IF j < DataBytes(bch)
           THEN PackedDataByte(bch, data, j, 0) + PackedDataByte(bch, data, j, 1)
                + PackedDataByte(bch, data, j, 2) + PackedDataByte(bch, data, j, 3)
                + PackedDataByte(bch, data, j, 4) + PackedDataByte(bch, data, j, 5)
                + PackedDataByte(bch, data, j, 6) + PackedDataByte(bch, data, j, 7)
           ELSE bch.databuf[j]])

PackedEccByte(bch, ecc, j, q) ==
    IF 8 * j + q < bch.ecc_bits THEN MaskIf(ecc[8 * j + q], q) ELSE 0

\* the byte j of the packed ecc
SumBits(bch, ecc, j) ==
    PackedEccByte(bch, ecc, j, 0) + PackedEccByte(bch, ecc, j, 1)
    + PackedEccByte(bch, ecc, j, 2) + PackedEccByte(bch, ecc, j, 3)
    + PackedEccByte(bch, ecc, j, 4) + PackedEccByte(bch, ecc, j, 5)
    + PackedEccByte(bch, ecc, j, 6) + PackedEccByte(bch, ecc, j, 7)

\* pack_eccbits without its bch_memset: the bits are set in the ecc bytes as
\* the call before left them (unwritten bytes read as 0)
pack_eccbits_stale(bch, ecc) ==
    Mem([i \in DOMAIN bch.databuf |->
           IF i < DataBytes(bch) \/ bch.databuf[i] = UNINIT
           THEN [k \in DOMAIN bch.databuf |->
                   IF k < DataBytes(bch) THEN bch.databuf[k]
                   ELSE SumBits(bch, ecc, k - DataBytes(bch))][i]
           ELSE bch.databuf[i] + SumBits(bch, ecc, i - DataBytes(bch))
                - AND(bch.databuf[i], SumBits(bch, ecc, i - DataBytes(bch)))])

\* pack_eccbits: databuf
pack_eccbits(bch, ecc) ==
    Mem([i \in DOMAIN bch.databuf |->
           IF i < DataBytes(bch) THEN bch.databuf[i]
           ELSE PackedEccByte(bch, ecc, i - DataBytes(bch), 0)
                + PackedEccByte(bch, ecc, i - DataBytes(bch), 1)
                + PackedEccByte(bch, ecc, i - DataBytes(bch), 2)
                + PackedEccByte(bch, ecc, i - DataBytes(bch), 3)
                + PackedEccByte(bch, ecc, i - DataBytes(bch), 4)
                + PackedEccByte(bch, ecc, i - DataBytes(bch), 5)
                + PackedEccByte(bch, ecc, i - DataBytes(bch), 6)
                + PackedEccByte(bch, ecc, i - DataBytes(bch), 7)])

\* unpack_eccbits: the caller's ecc[0..ecc_bits-1]
unpack_eccbits(bch) ==
    Mem([k \in 0..(bch.ecc_bits - 1) |->
           BIT(bch.databuf[DataBytes(bch) + k \div 8], 7 - (k % 8))])

\* the data bytes and the ecc bytes of databuf
databuf_data(bch) ==
    Mem([i \in 0..(DataBytes(bch) - 1) |-> bch.databuf[i]])

databuf_ecc(bch) ==
    Mem([i \in 0..(bch.ecc_bytes - 1) |-> bch.databuf[DataBytes(bch) + i]])

\* the data pointer's address modulo 4 when data is databuf: malloc returns
\* aligned blocks, and alloc_heap is taken to be word aligned
databuf_align(bch) == bch.ptr.databuf % 4

\* a call that has written through the null databuf pointer
bits_fault(c) == [bch |-> c.bch, heap_i |-> c.heap_i, fault |-> "null_write"]

\* encodebits_bch after encode_bch has returned r
encodebits_unpack(b, heap_i, r) ==
    [bch |-> b, heap_i |-> heap_i, fault |-> "none", ecc |-> unpack_eccbits(b)]

encodebits_store(b, heap_i, r) ==
    encodebits_unpack([b EXCEPT !.ecc_buf = r.ecc_buf,
                                !.databuf = Mem([i \in DOMAIN b.databuf |->
                                                   IF i < DataBytes(b) THEN b.databuf[i]
                                                   ELSE r.ecc[i - DataBytes(b)]])],
                      heap_i, r)

\* "encode_bch(bch, bch->databuf, ndatabytes, ecc_bytes)"
encodebits_encode(b, heap_i) ==
    encodebits_store(b, heap_i,
                     encode_bch(b, databuf_data(b), DataBytes(b), databuf_align(b),
                                databuf_ecc(b)))

\* "bch_memset(ecc_bytes, 0, bch->ecc_bytes)" after pack_databuf
encodebits_packed(b, heap_i, packed) ==
    encodebits_encode([b EXCEPT !.databuf = Mem([i \in DOMAIN packed |->
                                                    IF i < DataBytes(b) THEN packed[i] ELSE 0])],
                      heap_i)

encodebits_checked(c, data) ==
    IF c.bch.ptr.databuf = NULL THEN bits_fault(c) @@ [ecc |-> <<>>]
    ELSE encodebits_packed(c.bch, c.heap_i, pack_databuf(c.bch, data))

\* encodebits_bch: [bch, heap_i, fault, ecc]
encodebits_bch(build, heap_i, bch, data) ==
    encodebits_checked(check_databuf(build, heap_i, bch), data)

\* the positions converted without the pad bits taken off
decodebits_errloc_padded(b, r) ==
    Mem([k \in DOMAIN r.errloc |->
           IF k < r.ret
           THEN (r.errloc[k] - (r.errloc[k] % 8)) + (7 - (r.errloc[k] % 8))
           ELSE r.errloc[k]])

\* "errloc[k] = ((errloc[k] & ~7)|(7-(errloc[k] & 7))) - nPad" for k < nerr
decodebits_errloc(b, r) ==
    Mem([k \in DOMAIN r.errloc |->
           IF k < r.ret
           THEN ((r.errloc[k] - (r.errloc[k] % 8)) + (7 - (r.errloc[k] % 8))) - NPad(b)
           ELSE r.errloc[k]])

\* decodebits_bch after decode_bch has returned r
decodebits_done(heap_i, r) ==
    [bch |-> r.bch, heap_i |-> heap_i, fault |-> "none", ret |-> r.ret,
     errloc |-> decodebits_errloc(r.bch, r), raw |-> r.raw]

\* "nerr = decode_bch(bch, bch->databuf, nbytes, bch->databuf + nbytes,
\* NULL, NULL, errloc)"
decodebits_decode(b, heap_i, errloc) ==
    decodebits_done(heap_i,
                    decode_bch(b, Ptr(databuf_data(b)), DataBytes(b), databuf_align(b),
                               Ptr(databuf_ecc(b)), NullPtr, NullPtr, errloc))

\* after pack_databuf, "pack_eccbits(bch, recv_ecc)"
decodebits_packed(b, heap_i, recv_ecc, errloc, packed) ==
    decodebits_decode([b EXCEPT !.databuf = pack_eccbits([b EXCEPT !.databuf = packed],
                                                         recv_ecc)],
                      heap_i, errloc)

decodebits_checked(c, data, recv_ecc, errloc) ==
    IF c.bch.ptr.databuf = NULL
    THEN bits_fault(c) @@ [ret |-> 0, errloc |-> errloc, raw |-> NoRaw]
    ELSE decodebits_packed(c.bch, c.heap_i, recv_ecc, errloc, pack_databuf(c.bch, data))

\* decodebits_bch: [bch, heap_i, fault, ret, errloc, raw]; data and recv_ecc
\* are NullPtr or Ptr(bits)
decodebits_bch(build, heap_i, bch, data, recv_ecc, errloc) ==
    IF data.null \/ recv_ecc.null
    THEN [bch |-> bch, heap_i |-> heap_i, fault |-> "none", ret |-> -EINVAL,
          errloc |-> errloc, raw |-> NoRaw]
    ELSE decodebits_checked(check_databuf(build, heap_i, bch), data.v, recv_ecc.v, errloc)

\* correct_bch: data after "data[bi>>3] ^= (1<<(bi&7))" for errloc[0..nerr-1]
RECURSIVE correct_bch(_, _, _, _, _)
correct_bch(data, len, errloc, nerr, i) ==
    IF i >= nerr THEN data
    ELSE correct_bch(IF errloc[i] \div 8 < len
                     THEN [data EXCEPT ![errloc[i] \div 8] = XOR(@, 2 ^ (errloc[i] % 8))]
                     ELSE data,
                     len, errloc, nerr, i + 1)

\* correctbits_bch: databits after "databits[bi] ^= 1" for errloc[0..nerr-1]
RECURSIVE correctbits_bch(_, _, _, _, _)
correctbits_bch(bch, databits, errloc, nerr, i) ==
    IF i >= nerr THEN databits
    ELSE correctbits_bch(bch,
                         IF errloc[i] < bch.n - bch.ecc_bits
                         THEN [databits EXCEPT ![errloc[i]] = XOR(@, 1)]
                         ELSE databits,
                         errloc, nerr, i + 1)

\* =========================================================================
\* The program as a state machine
\* =========================================================================
VARIABLES
    build,          \* "linux" (malloc) or "arena" (the alloc_heap bump allocator)
    alloc_heap_i,   \* the arena's fill level
    bch,            \* the codec handle the caller holds, NullBch when none
    fault,          \* "none", or the undefined behaviour the program has run into
    call,           \* the last API call and its arguments
    ret,            \* the value the last encode/decode call returned
    errloc,         \* the errloc array passed to the last decode call
    raw,            \* the last decode call's locator degree and raw roots
    tx,             \* the transmitted block: data, len, align, ecc
    rx,             \* the received block: data, ecc, calc (re-encoded ecc), errs
    res,            \* the result of each call shape tried on the received block
    ndec,           \* the calls made so far that a specification bounds
    other           \* a second codec handle the caller holds, NullBch when none

vars == <<build, alloc_heap_i, bch, fault, call, ret, errloc, raw, tx, rx, res, ndec, other>>

\* a handle with undefined contents (returned after undefined behaviour)
WildBch == [ptr |-> [bch |-> 0], wild |-> TRUE]

IsCodec(b) == ~IsNull(b) /\ b # WildBch

NoCall == [op |-> "none"]

NoTx == [data |-> <<>>, len |-> 0, align |-> 0, ecc |-> <<>>]

NoRx == [data |-> <<>>, ecc |-> <<>>, calc |-> <<>>, errs |-> {}]

NoRes == [s \in {} |-> 0]

\* the program before any call
Fresh(b) ==
    /\ build = b
    /\ alloc_heap_i = 0
    /\ bch = NullBch
    /\ fault = "none"
    /\ call = NoCall
    /\ ret = 0
    /\ errloc = <<>>
    /\ raw = NoRaw
    /\ tx = NoTx
    /\ rx = NoRx
    /\ res = NoRes
    /\ ndec = 0
    /\ other = NullBch

\* what a call that runs into undefined behaviour may do: never return,
\* return NULL, or return a handle with undefined contents
UbOutcomes == {"crash", "null", "wild"}

\* bch = init_bch(m, t, prim_poly)
InitBch(m, t, prim_poly) ==
    /\ fault = "none"
    /\ \E r \in {init_bch(build, alloc_heap_i, m, t, prim_poly)} :
          LET args(o) == [op |-> "init_bch", m |-> m, t |-> t, prim_poly |-> prim_poly,
                          heap_i |-> alloc_heap_i, outcome |-> o]
          IN  /\ alloc_heap_i' = r.heap_i
              /\ fault' = r.fault
              /\ IF r.fault = "none"
                 THEN /\ bch' = r.ret
                      /\ call' = args(IF IsNull(r.ret) THEN "null" ELSE "codec")
                 ELSE \E o \in UbOutcomes :
                         /\ bch' = (IF o = "crash" THEN bch
                                    ELSE IF o = "null" THEN NullBch ELSE WildBch)
                         /\ call' = args(o)
    /\ UNCHANGED <<other, build, ret, errloc, raw, tx, rx, res, ndec>>

\* free_bch(bch)
FreeBch ==
    /\ fault = "none"
    /\ alloc_heap_i' = free_bch(build, alloc_heap_i)
    /\ bch' = NullBch
    /\ call' = [op |-> "free_bch", heap_i |-> alloc_heap_i]
    /\ UNCHANGED <<other, build, fault, ret, errloc, raw, tx, rx, res, ndec>>

\* -------------------------------------------------------------------------
\* SpecInit: a program that constructs one codec, with any arguments
\* -------------------------------------------------------------------------
Builds == {"linux", "arena"}

\* m around both ends of min_m..max_m; GF(2^m) is built for m = 5 and m = 6
InitMs == {4, 5, 6, 16}

\* t around 1 and around m*t = 2^m - 1, and two t whose product with 5
\* does not fit an int (5 * 429496730 = 2^31 + 2, 5 * 858993460 = 2^32 + 4)
InitTs == {0, 1, 2, 5, 7, 13, 429496730, 858993460}

\* 0 (the default), and polynomials that are not primitive of degree m:
\* 19 = x^4+x+1 (degree 4), 32 = x^5 and 34 = x^5+x (no constant term),
\* 51 = x^5+x^4+x+1 (reducible), 73 = x^6+x^3+1 (irreducible, order 9);
\* and 41 = x^5+x^3+1, primitive of degree 5 and not the default
InitPs == {0, 19, 32, 34, 41, 51, 73}

InitSInit == \E b \in Builds : Fresh(b)

InitOnce ==
    \E m \in InitMs, t \in InitTs, p \in InitPs :
        call = NoCall /\ InitBch(m, t, p)

NextInit == InitOnce \/ FreeBch

SpecInit == InitSInit /\ [][NextInit]_vars

\* -------------------------------------------------------------------------
\* SpecArena: the arena build; codecs are constructed, one after another,
\* without or with free_bch in between
\* -------------------------------------------------------------------------
ArenaArgs == {<<4, 1>>, <<5, 1>>, <<5, 2>>}

InitSArena == Fresh("arena")

InitAgain == \E a \in ArenaArgs : InitBch(a[1], a[2], 0)

NextArena == InitAgain \/ FreeBch

SpecArena == InitSArena /\ [][NextArena]_vars

\* =========================================================================
\* The caller's side of encode_bch and decode_bch
\* =========================================================================
\* the largest len decode_bch accepts, ceil((n - ecc_bits)/8)
MaxDataBytes(b) == DIV_ROUND_UP(b.n - b.ecc_bits, 8)

\* a data block of len bytes
DataBlock(len, seed) == Mem([i \in 0..(len - 1) |-> (37 * i + seed) % 256])

\* the bytes of an ecc buffer of the codec b
EccBlock(b, seed) == Mem([i \in 0..(b.ecc_bytes - 1) |-> (seed * (i + 1)) % 256])

XorBytes(a, b) == Mem([i \in DOMAIN a |-> XOR(a[i], b[i])])

\* the caller's errloc array before a call: t entries, and the memory that
\* follows them, none written
NoErrloc(t) == Mem([i \in 0..(2 * t + 3) |-> UNINIT])

Unwritten(el) == \A i \in DOMAIN el : el[i] = UNINIT

\* bit position p (byte p \div 8, bit p % 8) from the position s counted
\* from the most significant bit of the first byte, and back
PosOf(s) == (s - (s % 8)) + (7 - (s % 8))

\* data and ecc with the bit at position p flipped:
\* "data[p/8] ^= 1 << (p%8)" for p < 8*len, the ecc bit p - 8*len otherwise
FlipAt(data, ecc, len, p) ==
    IF p < 8 * len
    THEN [data |-> [data EXCEPT ![p \div 8] = XOR(@, 2 ^ (p % 8))], ecc |-> ecc]
    ELSE [data |-> data,
          ecc |-> [ecc EXCEPT ![(p - 8 * len) \div 8] = XOR(@, 2 ^ (p % 8))]]

\* data and ecc after flipping the bits named by el[0..k-1]
RECURSIVE Corrected(_, _, _, _, _)
Corrected(data, ecc, len, el, k) ==
    IF k <= 0 THEN [data |-> data, ecc |-> ecc]
    ELSE LET p == el[k - 1]
             f == IF p >= 0 /\ p < 8 * len + 8 * Cardinality(DOMAIN ecc)
                  THEN FlipAt(data, ecc, len, p)
                  ELSE [data |-> data, ecc |-> ecc]
         IN  Corrected(f.data, f.ecc, len, el, k - 1)

\* w(a^j) for the word w held in the first ecc_bits bits of the bytes e,
\* summed from bit s on
RECURSIVE EvalAt(_, _, _, _)
EvalAt(b, e, j, s) ==
    IF s >= b.ecc_bits THEN 0
    ELSE XOR(IF BIT(e[s \div 8], 7 - (s % 8)) = 1
             THEN a_pow(b, j * (b.ecc_bits - 1 - s)) ELSE 0,
             EvalAt(b, e, j, s + 1))

\* the 2t syndromes S_1 .. S_2t of the ecc bytes e, as a caller with
\* syndrome hardware hands them to decode_bch
Syndromes(b, e) == Mem([j \in 0..(2 * b.t - 1) |-> EvalAt(b, e, j + 1, 0)])

\* decode_bch has returned r
Decoded(r, shape, len, data, recv_ecc, calc_ecc, syn) ==
    /\ bch' = r.bch
    /\ ret' = r.ret
    /\ errloc' = r.errloc
    /\ raw' = r.raw
    /\ res' = (shape :> [ret |-> r.ret, errloc |-> r.errloc]) @@ res
    /\ ndec' = ndec + 1
    /\ call' = [op |-> "decode_bch", shape |-> shape, len |-> len,
                data |-> ~data.null, recv_ecc |-> ~recv_ecc.null,
                calc_ecc |-> ~calc_ecc.null, syn |-> ~syn.null,
                args |-> [data |-> data, recv_ecc |-> recv_ecc, calc_ecc |-> calc_ecc,
                          syn |-> syn]]
    /\ UNCHANGED <<other, build, alloc_heap_i, fault, tx, rx>>

\* errloc[] is fresh for every call
DoDecode(data, len, align, recv_ecc, calc_ecc, syn, shape) ==
    Decoded(decode_bch(bch, data, len, align, recv_ecc, calc_ecc, syn, NoErrloc(bch.t)),
            shape, len, data, recv_ecc, calc_ecc, syn)

\* the state after bch = init_bch(m, t, 0) has returned the codec b
Constructed(b) ==
    /\ build = "linux"
    /\ alloc_heap_i = 0
    /\ bch = b
    /\ fault = "none"
    /\ call = [op |-> "init_bch", m |-> b.m, t |-> b.t, prim_poly |-> 0,
               heap_i |-> 0, outcome |-> "codec"]
    /\ ret = 0
    /\ errloc = <<>>
    /\ raw = NoRaw
    /\ rx = NoRx
    /\ res = NoRes
    /\ ndec = 0
    /\ other = NullBch

\* -------------------------------------------------------------------------
\* SpecCodec: a block is encoded, sent through a channel that flips bits of
\* data and ecc, re-encoded by the receiver and decoded in the call shapes
\*   A  decode_bch(bch, data, len, recv_ecc, NULL, NULL, errloc)
\*   B  decode_bch(bch, NULL, len, recv_ecc, calc_ecc, NULL, errloc)
\*   C  decode_bch(bch, NULL, len, NULL, recv_ecc ^ calc_ecc, NULL, errloc)
\*   D  decode_bch(bch, NULL, len, NULL, NULL, syn, errloc)
\* -------------------------------------------------------------------------
\* t of the codecs (m = 5): ecc_bits = m*t for t = 1, 2 and
\* ecc_bits = 20 < m*t for t = 5
CodecTs == {1, 2, 5}

DataSeeds == {0, 200}

\* the data pointer's address modulo 4
Aligns == {0, 1, 3}

\* the channel flips at most t + ExtraErr bits
ExtraErr == 1

\* decode_bch calls on one received block
MaxDecodes == 2

Shapes == {"A", "B", "C", "D"}

\* the positions the channel may flip: the first and the last bit of the
\* data, the first and the last bit of the ecc, and the pad bit that
\* follows the ecc (counted from the most significant bit of data[0])
ErrPos(b, len) ==
    LET nbits == 8 * len + b.ecc_bits
    IN  {PosOf(s) : s \in {x \in {0, 8 * len - 1, 8 * len, nbits - 1, nbits} :
                              x >= 0 /\ x < 8 * len + 8 * b.ecc_bytes}}

InitSCodec ==
    \E t \in CodecTs :
        \E b \in {init_bch("linux", 0, min_m, t, 0).ret} :
            \E len \in 0..(MaxDataBytes(b) + 1), seed \in DataSeeds, al \in Aligns :
                /\ Constructed(b)
                /\ tx = [data |-> DataBlock(len, seed), len |-> len, align |-> al,
                         ecc |-> EccBlock(b, 0)]

\* encode_bch(bch, data, len, ecc) on the zeroed ecc buffer; the block is sent
Encode ==
    /\ fault = "none" /\ call.op = "init_bch"
    /\ \E r \in {encode_bch(bch, tx.data, tx.len, tx.align, tx.ecc)} :
          /\ bch' = [bch EXCEPT !.ecc_buf = r.ecc_buf]
          /\ tx' = [tx EXCEPT !.ecc = r.ecc]
          /\ rx' = [data |-> tx.data, ecc |-> r.ecc, calc |-> <<>>, errs |-> {}]
    /\ call' = [op |-> "encode_bch"]
    /\ UNCHANGED <<other, build, alloc_heap_i, fault, ret, errloc, raw, res, ndec>>

\* the bytes data[off .. off+len-1]
Chunk(data, off, len) == Mem([i \in 0..(len - 1) |-> data[off + i]])

\* the codec after an encode_bch call that returned r
Encoded(b, r) == [b EXCEPT !.ecc_buf = r.ecc_buf]

\* the block is encoded incrementally, by three encode_bch calls on the
\* chunks data[0..k1-1], data[k1..k2-1] and data[k2..len-1] with the same
\* ecc buffer, zeroed before the first call
EncodeChunks(k1, k2) ==
    /\ fault = "none" /\ call.op = "init_bch"
    /\ k1 <= k2
    /\ \E r1 \in {encode_bch(bch, Chunk(tx.data, 0, k1), k1, tx.align, tx.ecc)} :
       \E r2 \in {encode_bch(Encoded(bch, r1), Chunk(tx.data, k1, k2 - k1), k2 - k1,
                              (tx.align + k1) % 4, r1.ecc)} :
       \E r3 \in {encode_bch(Encoded(bch, r2), Chunk(tx.data, k2, tx.len - k2),
                              tx.len - k2, (tx.align + k2) % 4, r2.ecc)} :
          /\ bch' = Encoded(bch, r3)
          /\ tx' = [tx EXCEPT !.ecc = r3.ecc]
    /\ call' = [op |-> "encode_chunks", k1 |-> k1, k2 |-> k2]
    /\ UNCHANGED <<other, build, alloc_heap_i, fault, ret, errloc, raw, rx, res, ndec>>

\* the channel flips the bit at position p of the block in flight
Corrupt(p) ==
    /\ fault = "none" /\ call.op \in {"encode_bch", "corrupt"}
    /\ p \notin rx.errs
    /\ Cardinality(rx.errs) < bch.t + ExtraErr
    /\ LET f == FlipAt(rx.data, rx.ecc, tx.len, p)
       IN  rx' = [rx EXCEPT !.data = f.data, !.ecc = f.ecc, !.errs = @ \cup {p}]
    /\ call' = [op |-> "corrupt"]
    /\ UNCHANGED <<other, build, alloc_heap_i, bch, fault, ret, errloc, raw, tx, res, ndec>>

\* the receiver's encode_bch(bch, data, len, calc_ecc) on the received data
EncodeRecv ==
    /\ fault = "none" /\ call.op \in {"encode_bch", "corrupt"}
    /\ \E r \in {encode_bch(bch, rx.data, tx.len, tx.align, EccBlock(bch, 0))} :
          /\ bch' = [bch EXCEPT !.ecc_buf = r.ecc_buf]
          /\ rx' = [rx EXCEPT !.calc = r.ecc]
    /\ call' = [op |-> "encode_recv"]
    /\ UNCHANGED <<other, build, alloc_heap_i, fault, ret, errloc, raw, tx, res, ndec>>

\* decode_bch on the received block, in the call shape s
Decode(s) ==
    /\ fault = "none" /\ call.op \in {"encode_recv", "decode_bch"}
    /\ ndec < MaxDecodes
    /\ s \notin DOMAIN res
    /\ DoDecode(IF s = "A" THEN Ptr(rx.data) ELSE NullPtr,
                tx.len,
                IF s = "A" THEN tx.align ELSE 0,
                IF s \in {"A", "B"} THEN Ptr(rx.ecc) ELSE NullPtr,
                IF s = "B" THEN Ptr(rx.calc)
                ELSE IF s = "C" THEN Ptr(XorBytes(rx.ecc, rx.calc)) ELSE NullPtr,
                IF s = "D" THEN Ptr(Syndromes(bch, XorBytes(rx.ecc, rx.calc)))
                ELSE NullPtr,
                s)

NextCodec ==
    \/ Encode
    \/ \E k1, k2 \in 0..tx.len : EncodeChunks(k1, k2)
    \/ \E p \in ErrPos(bch, tx.len) : Corrupt(p)
    \/ EncodeRecv
    \/ \E s \in Shapes : Decode(s)

SpecCodec == InitSCodec /\ [][NextCodec]_vars

\* -------------------------------------------------------------------------
\* SpecDecode: one decode_bch call on a constructed codec, with any
\* combination of present and absent arguments, any len, any ecc bytes and
\* any syndrome vector
\* -------------------------------------------------------------------------
\* codecs (5, 1) .. (5, MaxDecT)
MaxDecT == 5

EccSeeds == {0, 90}

\* the byte values of calc_ecc in DecodeXor
XorByteVals == {0, 1, 8, 37, 128, 255}

\* syndrome vectors are drawn with two seeds in 0..MaxSynSeed
MaxSynSeed == 7

\* a vector of 2t elements of GF(2^m)
SynVec(b, u, v) ==
    Mem([j \in 0..(2 * b.t - 1) |-> (u * (j + 1) + v * j * j + u * v) % (b.n + 1)])

InitSDecode ==
    \E t \in 1..MaxDecT :
        /\ Constructed(init_bch("linux", 0, min_m, t, 0).ret)
        /\ tx = NoTx

\* decode_bch with each argument present or absent
DecodeArgs(has_data, has_recv, has_calc, has_syn, len, r, c) ==
    /\ fault = "none" /\ call.op = "init_bch"
    /\ DoDecode(IF has_data THEN Ptr(DataBlock(len, 200)) ELSE NullPtr,
                len, 0,
                IF has_recv THEN Ptr(EccBlock(bch, r)) ELSE NullPtr,
                IF has_calc THEN Ptr(EccBlock(bch, c)) ELSE NullPtr,
                IF has_syn THEN Ptr(Syndromes(bch, EccBlock(bch, c))) ELSE NullPtr,
                "args")

\* shape C with the ecc bytes x for recv_ecc ^ calc_ecc
DecodeXor(x, len) ==
    /\ fault = "none" /\ call.op = "init_bch"
    /\ DoDecode(NullPtr, len, 0, NullPtr, Ptr(x), NullPtr, "C")

\* shape D with the syndrome vector v
DecodeSyn(v, len) ==
    /\ fault = "none" /\ call.op = "init_bch"
    /\ DoDecode(NullPtr, len, 0, NullPtr, NullPtr, Ptr(v), "D")

NextDecode ==
    \/ \E hd, hr, hc, hs \in BOOLEAN, r, c \in EccSeeds :
          \E len \in {0, MaxDataBytes(bch), MaxDataBytes(bch) + 1} :
              DecodeArgs(hd, hr, hc, hs, len, r, c)
    \/ \E x \in [0..(bch.ecc_bytes - 1) -> XorByteVals], len \in {0, MaxDataBytes(bch)} :
          DecodeXor(x, len)
    \/ \E u, v \in 0..MaxSynSeed, len \in {0, MaxDataBytes(bch)} :
          DecodeSyn(SynVec(bch, u, v), len)

SpecDecode == InitSDecode /\ [][NextDecode]_vars

\* -------------------------------------------------------------------------
\* SpecDeep: the codec init_bch(6, 9, 0) decodes syndrome vectors its caller
\* supplies: DeepSyn, on which find_poly_roots comes to a polynomial of
\* degree > 4 with k = m + 1, and the vectors that differ from it in one
\* syndrome
\* -------------------------------------------------------------------------
DeepSyn ==
    LET v == <<28, 14, 3, 26, 7, 52, 46, 15, 57, 35, 58, 45, 30, 13, 7, 28, 56, 20>>
    IN  Mem([j \in 0..(Len(v) - 1) |-> v[j + 1]])

\* the values a syndrome is replaced by: 0 .. MaxDeepVal
MaxDeepVal == 7

InitSDeep ==
    /\ Constructed(init_bch("linux", 0, 6, 9, 0).ret)
    /\ tx = NoTx

\* decode_bch(bch, NULL, 0, NULL, NULL, syn, errloc), syn being DeepSyn with
\* syn[j] = x
DeepDecode(j, x) ==
    /\ fault = "none" /\ call.op = "init_bch"
    /\ DoDecode(NullPtr, 0, 0, NullPtr, NullPtr, Ptr([DeepSyn EXCEPT ![j] = x]), "D")

NextDeep ==
    \E j \in DOMAIN DeepSyn :
        \E x \in (0..MaxDeepVal) \cup {DeepSyn[j]} : DeepDecode(j, x)

SpecDeep == InitSDeep /\ [][NextDeep]_vars

\* -------------------------------------------------------------------------
\* SpecRoots: the closed-form root finders of a codec over GF(2^5) or
\* GF(2^6), each applied once to field elements or to a polynomial placed
\* in bch->elp. The values stored to roots[] are kept in errloc and their
\* number in ret.
\* -------------------------------------------------------------------------
RootMs == {5, 6}

\* the coefficients tried: every element of GF(2^5), and of GF(2^6) the
\* elements 0 .. MaxCoef6 and the last one
MaxCoef6 == 4

Coefs(b) == IF b.m = 5 THEN 0..b.n ELSE (0..MaxCoef6) \cup {b.n}

\* bch->elp holding c[0] + c[1] X + ... (coefs[j + 1] is c[j])
PolyAt(b, coefs) ==
    Mem([x \in DOMAIN b.pm |->
           IF x = ELP THEN Len(coefs) - 1
           ELSE IF x \in 1..Len(coefs) THEN coefs[x]
           ELSE b.pm[x]])

InitSRoots ==
    \E m \in RootMs :
        /\ Constructed(init_bch("linux", 0, m, 2, 0).ret)
        /\ tx = NoTx

\* a root finder called on args has stored r and returned Len(r)
RootsReturned(op, args, r) ==
    /\ call' = [op |-> op, args |-> args]
    /\ ret' = Len(r)
    /\ errloc' = r
    /\ UNCHANGED <<build, alloc_heap_i, bch, fault, raw, tx, rx, res, ndec, other>>

\* find_affine4_roots(bch, a, b, c, roots)
Affine4(a, b, c) ==
    /\ fault = "none" /\ call.op = "init_bch"
    /\ RootsReturned("find_affine4_roots", <<a, b, c>>, find_affine4_roots(bch, a, b, c))

\* find_poly_deg2_roots(bch, poly, roots) with poly = c2 X^2 + c1 X + c0
Deg2(c2, c1, c0) ==
    /\ fault = "none" /\ call.op = "init_bch"
    /\ RootsReturned("find_poly_deg2_roots", <<c0, c1, c2>>,
                     find_poly_deg2_roots(bch, PolyAt(bch, <<c0, c1, c2>>), ELP))

\* find_poly_deg1_roots(bch, poly, roots) with poly = c1 X + c0
Deg1(c1, c0) ==
    /\ fault = "none" /\ call.op = "init_bch"
    /\ RootsReturned("find_poly_deg1_roots", <<c0, c1>>,
                     find_poly_deg1_roots(bch, PolyAt(bch, <<c0, c1>>), ELP))

NextRoots ==
    \/ call.op = "init_bch" /\ \E a, b, c \in Coefs(bch) : Affine4(a, b, c)
    \/ call.op = "init_bch" /\
          \E c2 \in Coefs(bch) \ {0}, c1, c0 \in Coefs(bch) : Deg2(c2, c1, c0)
    \/ call.op = "init_bch" /\
          \E c1 \in Coefs(bch) \ {0}, c0 \in Coefs(bch) : Deg1(c1, c0)

SpecRoots == InitSRoots /\ [][NextRoots]_vars

\* -------------------------------------------------------------------------
\* SpecSyn: compute_syndromes applied once to bch->ecc_buf as load_ecc8
\* fills it from ecc_bytes bytes of the caller. The codecs have
\* ecc_bits = 5 and 25 (one word), 33 (two words, 7 bits of the last byte
\* unused) and 32 (one full word).
\* -------------------------------------------------------------------------
SynCodecs == {<<5, 1>>, <<5, 5>>, <<6, 6>>, <<8, 4>>}

\* the values of the ecc bytes
SynByteVals == {0, 1, 37, 255}

InitSSyn ==
    \E mt \in SynCodecs :
        /\ Constructed(init_bch("linux", 0, mt[1], mt[2], 0).ret)
        /\ tx = NoTx

\* compute_syndromes(bch, bch->ecc_buf, bch->syn) has returned cs
SyndromesComputed(ecc, cs) ==
    /\ bch' = [bch EXCEPT !.ecc_buf = cs.ecc, !.syn = cs.syn]
    /\ call' = [op |-> "compute_syndromes", ecc |-> ecc]
    /\ UNCHANGED <<build, alloc_heap_i, fault, ret, errloc, raw, tx, rx, res, ndec, other>>

\* load_ecc8(bch, bch->ecc_buf, x) and compute_syndromes
ComputeSyndromes(x) ==
    /\ fault = "none" /\ call.op = "init_bch"
    /\ SyndromesComputed(load_ecc8(bch, x), compute_syndromes(bch, load_ecc8(bch, x)))

NextSyn ==
    call.op = "init_bch" /\
        \E x \in [0..(bch.ecc_bytes - 1) -> SynByteVals] : ComputeSyndromes(x)

SpecSyn == InitSSyn /\ [][NextSyn]_vars

\* -------------------------------------------------------------------------
\* SpecBits: one codec, of either build, used through the bit-oriented API:
\* the K = n - ecc_bits data bits x are encoded by encodebits_bch, the channel
\* flips bits of the n bits in flight, and the receiver calls decodebits_bch
\* and correctbits_bch. Calls of the byte-oriented API on the same codec
\* (encode_bch, decode_bch, correct_bch) come in between.
\* -------------------------------------------------------------------------
\* t of the codecs (m = 5): K = 26, 21, 16, 11 and nPad = 6, 3, 0, 5; with
\* t = 5 the locator can have degree 5, the roots of which are found by
\* factor_polynomial
BitTs == {1, 2, 3, 5}

\* the sum of the first k sizes
RECURSIVE SumSizes(_, _)
SumSizes(sizes, k) == IF k = 0 THEN 0 ELSE sizes[k] + SumSizes(sizes, k - 1)

\* the sizes of all bch_alloc calls of init_bch(m, t, 0)
all_sizes(m, t) == <<SizeofBchControl>> \o init_sizes(m, t) \o genpoly_sizes(m, t)

\* alloc_heap_i after the allocations of an init_bch(m, t, 0) that started
\* at heap_i and returned a codec: "alloc_heap_i += size" for each
heap_after_init(heap_i, m, t) ==
    heap_i + SumSizes(all_sizes(m, t), Len(all_sizes(m, t)))

\* the arena as init_bch(9, 4, 0) and init_bch(8, 3, 0) leave it: 5000 bytes
\* are left, and init_bch(6, 2, 0) takes 4996 of them
ArenaUsed == heap_after_init(heap_after_init(0, 9, 4), 8, 3)

\* build, m, t and alloc_heap_i before init_bch, of the codec
BitCodecs ==
    {<<bd, min_m, t, 0>> : bd \in Builds, t \in BitTs} \cup {<<"arena", 6, 2, ArenaUsed>>}

\* 0: the bits as 0 and 1; 1: the bits as ASCII '0' and '1'
BitSeeds == {0, 1}

\* byte-oriented calls that come in between
MaxByteCalls == 1

\* the caller's K data bits, one per byte
DataBits(b, seed) ==
    Mem([k \in 0..(b.n - b.ecc_bits - 1) |-> 48 * seed + ((k * k + k \div 3) % 2)])

\* the positions the channel may flip, of the n bits: the first, a middle
\* and the last data bit, the first and the last ecc bit
BitErrPos(b) ==
    {0, (b.n - b.ecc_bits) \div 2, b.n - b.ecc_bits - 1, b.n - b.ecc_bits, b.n - 1}

\* the state after bch = init_bch(5, t, 0) has returned the codec r.ret
ConstructedIn(bd, r) ==
    /\ build = bd
    /\ alloc_heap_i = r.heap_i
    /\ bch = r.ret
    /\ fault = "none"
    /\ call = [op |-> "init_bch", m |-> r.ret.m, t |-> r.ret.t, prim_poly |-> 0,
               heap_i |-> r.heap_i, outcome |-> "codec"]
    /\ ret = 0
    /\ errloc = <<>>
    /\ raw = NoRaw
    /\ rx = NoRx
    /\ res = NoRes
    /\ ndec = 0
    /\ other = NullBch

InitSBits ==
    \E c \in BitCodecs, seed \in BitSeeds :
        \E r \in {init_bch(c[1], c[4], c[2], c[3], 0)} :
            /\ ConstructedIn(c[1], r)
            /\ tx = [data |-> DataBits(r.ret, seed), len |-> r.ret.n - r.ret.ecc_bits,
                     align |-> 0, ecc |-> <<>>]

\* a bit-oriented call has returned r, or has run into undefined behaviour:
\* the program stops, or goes on with the codec's memory overwritten
BitsReturned(r) ==
    /\ alloc_heap_i' = r.heap_i
    /\ fault' = r.fault
    /\ IF r.fault = "none" THEN bch' = r.bch ELSE bch' \in {r.bch, WildBch}

\* encodebits_bch(bch, data, ecc); the n bits are sent
EncodeBits ==
    /\ fault = "none" /\ rx = NoRx
    /\ \E r \in {encodebits_bch(build, alloc_heap_i, bch, tx.data)} :
          /\ BitsReturned(r)
          /\ tx' = [tx EXCEPT !.ecc = r.ecc]
          /\ rx' = [data |-> tx.data, ecc |-> r.ecc, calc |-> <<>>, errs |-> {}]
    /\ call' = [op |-> "encodebits_bch"]
    /\ UNCHANGED <<other, build, ret, errloc, raw, res, ndec>>

\* the channel flips the bit p of the n bits in flight
CorruptBit(p) ==
    /\ fault = "none" /\ rx # NoRx /\ res = NoRes
    /\ p \notin rx.errs
    /\ Cardinality(rx.errs) < bch.t + ExtraErr
    /\ rx' = IF p < tx.len
             THEN [rx EXCEPT !.data[p] = XOR(@, 1), !.errs = @ \cup {p}]
             ELSE [rx EXCEPT !.ecc[p - tx.len] = XOR(@, 1), !.errs = @ \cup {p}]
    /\ call' = [op |-> "corrupt"]
    /\ UNCHANGED <<other, build, alloc_heap_i, bch, fault, ret, errloc, raw, tx, res, ndec>>

\* nerr = decodebits_bch(bch, data, recv_ecc, errloc) on the received bits
DecodeBits ==
    /\ fault = "none" /\ rx # NoRx /\ "bits" \notin DOMAIN res
    /\ \E r \in {decodebits_bch(build, alloc_heap_i, bch, Ptr(rx.data), Ptr(rx.ecc),
                                 NoErrloc(bch.t))} :
          /\ BitsReturned(r)
          /\ ret' = r.ret
          /\ errloc' = r.errloc
          /\ raw' = r.raw
          /\ res' = ("bits" :> [ret |-> r.ret, errloc |-> r.errloc]) @@ res
    /\ call' = [op |-> "decodebits_bch"]
    /\ UNCHANGED <<other, build, tx, rx, ndec>>

\* correctbits_bch(bch, databits, errloc, nerr) with what decodebits_bch
\* returned
CorrectBits ==
    /\ fault = "none" /\ "bits" \in DOMAIN res /\ "fixed" \notin DOMAIN res
    /\ res' = ("fixed" :> [data |-> correctbits_bch(bch, rx.data, res["bits"].errloc,
                                                    res["bits"].ret, 0)]) @@ res
    /\ call' = [op |-> "correctbits_bch"]
    /\ UNCHANGED <<other, build, alloc_heap_i, bch, fault, ret, errloc, raw, tx, rx, ndec>>

\* encode_bch(bch, data, len, ecc) on a block of len bytes
ByteEncode(len, seed) ==
    /\ fault = "none" /\ ndec < MaxByteCalls
    /\ \E r \in {encode_bch(bch, DataBlock(len, seed), len, 0, EccBlock(bch, 0))} :
          /\ bch' = Encoded(bch, r)
          /\ res' = ("ecc" :> [ecc |-> r.ecc]) @@ res
    /\ ndec' = ndec + 1
    /\ call' = [op |-> "encode_bch", len |-> len, seed |-> seed]
    /\ UNCHANGED <<other, build, alloc_heap_i, fault, ret, errloc, raw, tx, rx>>

\* the arguments of decode_bch in the call shape s, for a block of len data
\* bytes and the ecc bytes e: e is recv_ecc in shape A, recv_ecc ^ calc_ecc
\* in shape C, and the word the syndromes are computed from in shape D
ByteArgs(b, s, len, seed, e) ==
    [data |-> IF s = "A" THEN Ptr(DataBlock(len, seed)) ELSE NullPtr,
     recv_ecc |-> IF s = "A" THEN Ptr(e) ELSE NullPtr,
     calc_ecc |-> IF s = "C" THEN Ptr(e) ELSE NullPtr,
     syn |-> IF s = "D" THEN Ptr(Syndromes(b, e)) ELSE NullPtr]

\* the call shapes of the decode_bch calls that come in between
ByteShapes == {"A", "C", "D"}

\* decode_bch(bch, data, len, recv_ecc, calc_ecc, syn, errloc) with the
\* arguments a
ByteDecodeWith(b, len, a) ==
    decode_bch(b, a.data, len, 0, a.recv_ecc, a.calc_ecc, a.syn, NoErrloc(b.t))

\* decode_bch in the call shape s on a block of len bytes and the ecc
\* bytes e
ByteDecode(s, len, seed, e) ==
    /\ fault = "none" /\ ndec < MaxByteCalls
    /\ \E r \in {ByteDecodeWith(bch, len, ByteArgs(bch, s, len, seed, e))} :
          /\ bch' = r.bch
          /\ ret' = r.ret
          /\ errloc' = r.errloc
          /\ raw' = r.raw
          /\ res' = ("bytes" :> [ret |-> r.ret, errloc |-> r.errloc,
                                 data |-> correct_bch(DataBlock(len, seed), len, r.errloc,
                                                      r.ret, 0)]) @@ res
    /\ ndec' = ndec + 1
    /\ call' = [op |-> "decode_bch", shape |-> s, len |-> len, seed |-> seed, ecc |-> e]
    /\ UNCHANGED <<other, build, alloc_heap_i, fault, tx, rx>>

NextBits ==
    \/ EncodeBits
    \/ fault = "none" /\ \E p \in BitErrPos(bch) : CorruptBit(p)
    \/ DecodeBits
    \/ CorrectBits
    \/ fault = "none" /\ \E len \in {1, MaxDataBytes(bch)} : ByteEncode(len, 200)
    \/ fault = "none" /\ \E s \in ByteShapes, c \in EccSeeds :
                             ByteDecode(s, MaxDataBytes(bch), 200, EccBlock(bch, c))

SpecBits == InitSBits /\ [][NextBits]_vars

\* -------------------------------------------------------------------------
\* SpecPair: a program that holds two codec handles, bch and other, and
\* calls init_bch, free_bch, encode_bch and decode_bch on them in any order.
\* A handle is the address of a struct bch_control; the variables bch and
\* other hold what the memory at that address reads as.
\* -------------------------------------------------------------------------
Handles == {"bch", "other"}

\* the codec at the handle h, and at the handle that is not h
At(h) == IF h = "bch" THEN bch ELSE other

Beside(h) == IF h = "bch" THEN other ELSE bch

\* (m, t) of the init_bch calls: (4, 1) is rejected
PairArgs == {<<4, 1>>, <<5, 1>>, <<5, 2>>}

\* calls the program makes
MaxPairCalls == 4

\* the bytes alloc_heap[lo .. hi-1] the allocations of init_bch for the
\* codec b have handed out
Range(b) == [lo |-> b.ptr.bch, hi |-> heap_after_init(b.ptr.bch, b.m, b.t)]

Overlap(r1, r2) == r1.lo < r2.hi /\ r2.lo < r1.hi

\* the two handles are the same address
Aliased ==
    /\ build = "arena"
    /\ IsCodec(bch) /\ IsCodec(other)
    /\ bch.ptr.bch = other.ptr.bch

\* what the memory of the codec g reads as after init_bch has built the
\* codec r.ret in alloc_heap[lo .. r.heap_i - 1]: the new codec where the
\* struct is the same, undefined contents where the new codec's tables have
\* been written over it
Overwritten(g, lo, r) ==
    IF build = "linux" \/ IsNull(g) \/ IsNull(r.ret) \/ g = WildBch THEN g
    ELSE IF ~Overlap(Range(g), [lo |-> lo, hi |-> r.heap_i]) THEN g
    ELSE IF g.ptr.bch = lo THEN r.ret
    ELSE WildBch

\* the two handles after a call on the handle h that left b at h and g at
\* the other handle
Handle(h, b, g) ==
    /\ bch' = (IF h = "bch" THEN b ELSE g)
    /\ other' = (IF h = "bch" THEN g ELSE b)

\* h = init_bch(m, t, 0), for a handle that holds no codec
PairInit(h, m, t) ==
    /\ fault = "none" /\ IsNull(At(h)) /\ ndec < MaxPairCalls
    /\ \E r \in {init_bch(build, alloc_heap_i, m, t, 0)} :
          /\ alloc_heap_i' = r.heap_i
          /\ fault' = r.fault
          /\ Handle(h, r.ret, Overwritten(Beside(h), alloc_heap_i, r))
          /\ call' = [op |-> "init_bch", h |-> h, m |-> m, t |-> t, prim_poly |-> 0,
                      heap_i |-> alloc_heap_i,
                      outcome |-> IF IsNull(r.ret) THEN "null" ELSE "codec"]
    /\ ndec' = ndec + 1
    /\ UNCHANGED <<build, ret, errloc, raw, tx, rx, res>>

\* free_bch(h)
PairFree(h) ==
    /\ fault = "none" /\ ~IsNull(At(h)) /\ ndec < MaxPairCalls
    /\ ndec' = ndec + 1
    /\ alloc_heap_i' = free_bch(build, alloc_heap_i)
    /\ Handle(h, NullBch, Beside(h))
    /\ call' = [op |-> "free_bch", h |-> h, heap_i |-> alloc_heap_i]
    /\ UNCHANGED <<build, fault, ret, errloc, raw, tx, rx, res>>

\* what a call on the handle h leaves at the other handle: the same memory
\* when the handles are the same address
Shared(h, b) == IF Aliased THEN b ELSE Beside(h)

\* encode_bch(h, data, len, ecc) on a block of len bytes
PairEncode(h, len, seed) ==
    /\ fault = "none" /\ IsCodec(At(h)) /\ ndec < MaxPairCalls
    /\ ndec' = ndec + 1
    /\ \E r \in {encode_bch(At(h), DataBlock(len, seed), len, 0, EccBlock(At(h), 0))} :
          /\ Handle(h, Encoded(At(h), r), Shared(h, Encoded(At(h), r)))
          /\ tx' = [data |-> DataBlock(len, seed), len |-> len, align |-> 0, ecc |-> r.ecc]
    /\ call' = [op |-> "encode_bch", h |-> h]
    /\ UNCHANGED <<build, alloc_heap_i, fault, ret, errloc, raw, rx, res>>

\* decode_bch(h, NULL, len, NULL, calc_ecc, NULL, errloc) with the ecc
\* bytes e for calc_ecc
PairDecode(h, len, e) ==
    /\ fault = "none" /\ IsCodec(At(h)) /\ ndec < MaxPairCalls
    /\ ndec' = ndec + 1
    /\ \E r \in {decode_bch(At(h), NullPtr, len, 0, NullPtr, Ptr(e), NullPtr,
                             NoErrloc(At(h).t))} :
          /\ Handle(h, r.bch, Shared(h, r.bch))
          /\ ret' = r.ret
          /\ errloc' = r.errloc
          /\ raw' = r.raw
    /\ call' = [op |-> "decode_bch", h |-> h]
    /\ UNCHANGED <<build, alloc_heap_i, fault, tx, rx, res>>

\* a call on a handle whose memory a later init_bch has written over reads
\* undefined contents
PairUseOverwritten(h) ==
    /\ fault = "none" /\ At(h) = WildBch
    /\ fault' = "uninit_read"
    /\ call' = [op |-> "encode_bch", h |-> h]
    /\ UNCHANGED <<build, alloc_heap_i, bch, other, ret, errloc, raw, tx, rx, res, ndec>>

InitSPair == \E b \in Builds : Fresh(b)

NextPair ==
    \E h \in Handles :
        \/ \E a \in PairArgs : PairInit(h, a[1], a[2])
        \/ PairFree(h)
        \/ IsCodec(At(h)) /\ PairEncode(h, MaxDataBytes(At(h)), 200)
        \/ IsCodec(At(h)) /\ PairDecode(h, MaxDataBytes(At(h)), EccBlock(At(h), 90))
        \/ PairUseOverwritten(h)

SpecPair == InitSPair /\ [][NextPair]_vars

\* =========================================================================
\* Properties of construction
\* =========================================================================
InitCalled == call.op = "init_bch"

\* C7 (as amended): every codec init_bch returns has
\* ecc_bytes = ceil(m*t/8), which is at least ceil(ecc_bits/8) and equals it
\* when the generator polynomial has the full degree m*t.
C7_EccBytesFromMT ==
    (InitCalled /\ IsCodec(bch)) =>
        /\ bch.ecc_bytes = DIV_ROUND_UP(bch.m * bch.t, 8)
        /\ bch.ecc_bytes >= DIV_ROUND_UP(bch.ecc_bits, 8)
        /\ bch.ecc_bits <= bch.m * bch.t
        /\ (bch.ecc_bits = bch.m * bch.t =>
               bch.ecc_bytes = DIV_ROUND_UP(bch.ecc_bits, 8))

\* a codec whose generator polynomial has a degree below m*t
C7_Witness ==
    /\ InitCalled /\ IsCodec(bch)
    /\ bch.m = 5 /\ bch.t = 5 /\ bch.ecc_bits = 20 /\ bch.ecc_bytes = 4

\* C7 as stated: ecc_bytes = ceil(ecc_bits/8) for every codec
C7_EccBytesFromBits ==
    (InitCalled /\ IsCodec(bch)) => bch.ecc_bytes = DIV_ROUND_UP(bch.ecc_bits, 8)

\* m*t >= 2^m - 1 for the mathematical product (m in min_m..max_m)
ProductTooLarge(m, t) == t > ((2 ^ m) - 2) \div m

InvalidMT(m, t) == m < min_m \/ m > max_m \/ t < 1 \/ ProductTooLarge(m, t)

\* C8 as stated: with prim_poly = 0 and sufficient memory, init_bch(m, t, 0)
\* returns null for every (m, t) with m < 5, m > 15, t < 1 or
\* m*t >= 2^m - 1, and a codec for every other pair.
C8_NullIffInvalid ==
    (InitCalled /\ build = "linux" /\ call.prim_poly = 0) =>
        IF InvalidMT(call.m, call.t)
        THEN call.outcome = "null"
        ELSE call.outcome = "codec"

\* the order of x modulo the polynomial p of degree m, 0 if x^i is never 1
RECURSIVE OrderOfX(_, _, _, _)
OrderOfX(m, p, x, i) ==
    IF i > (2 ^ m) - 1 THEN 0
    ELSE LET x2 == IF 2 * x >= 2 ^ m THEN XOR(2 * x, p) ELSE 2 * x
         IN  IF x2 = 1 THEN i ELSE OrderOfX(m, p, x2, i + 1)

\* p is a primitive polynomial of degree m over GF(2)
Primitive(m, p) == deg(p) = m /\ OrderOfX(m, p, 1, 1) = (2 ^ m) - 1

\* C9 as stated: for m in 5..15 and a non-zero prim_poly that is not a
\* primitive polynomial of degree m, init_bch returns null (build_gf_tables
\* having reported the failure).
C9_NonPrimitiveNull ==
    (/\ InitCalled /\ build = "linux"
     /\ ~InvalidMT(call.m, call.t)
     /\ call.prim_poly # 0
     /\ ~Primitive(call.m, call.prim_poly)) =>
        call.outcome = "null" /\ build_gf_tables(call.m, call.prim_poly).err # 0

\* some bch_alloc of init_bch(m, t, .) returns 0 at the arena fill level heap_i
AllocFails(heap_i, m, t) ==
    LET a0 == bch_alloc("arena", heap_i, SizeofBchControl)
        al == alloc_seq("arena", a0.heap_i, init_sizes(m, t), <<>>)
        ag == alloc_seq("arena", al.heap_i, genpoly_sizes(m, t), <<>>)
    IN  \/ a0.ptr = NULL
        \/ \E i \in DOMAIN al.ptrs : al.ptrs[i] = NULL
        \/ \E i \in DOMAIN ag.ptrs : ag.ptrs[i] = NULL

\* C10 as stated: in the arena build, when an allocation of init_bch
\* cannot be satisfied, init_bch returns null and has neither read nor
\* written through a null pointer.
C10_ExhaustionNull ==
    (/\ InitCalled /\ build = "arena"
     /\ ~InvalidMT(call.m, call.t)
     /\ AllocFails(call.heap_i, call.m, call.t)) =>
        call.outcome = "null" /\ fault = "none"

\* =========================================================================
\* Properties of encode_bch and decode_bch
\* =========================================================================
DecodeCalled == call.op = "decode_bch"

\* the bits of data followed by its ecc_bits ecc bits
NBits(b, len) == 8 * len + b.ecc_bits

\* C1 as stated: for len <= ceil((n - ecc_bits)/8) and an error pattern of
\* weight w <= t over the 8*len + ecc_bits bits of data and ecc, decode_bch
\* (shape A) returns w, and flipping the bits named by errloc[0..w) restores
\* the transmitted data and ecc.
C1_CorrectsUpToT ==
    (/\ "A" \in DOMAIN res
     /\ tx.len <= MaxDataBytes(bch)
     /\ Cardinality(rx.errs) <= bch.t
     /\ \A p \in rx.errs : PosOf(p) < NBits(bch, tx.len)) =>
        /\ res["A"].ret = Cardinality(rx.errs)
        /\ Corrected(rx.data, rx.ecc, tx.len, res["A"].errloc, res["A"].ret)
               = [data |-> tx.data, ecc |-> tx.ecc]

\* C2: for len <= ceil((n - ecc_bits)/8), decode_bch(data, len, ecc, NULL,
\* NULL, errloc) on a block and the ecc encode_bch computed for it from a
\* zeroed buffer returns 0 and writes no entry of errloc.
C2_CleanBlockReturnsZero ==
    ("A" \in DOMAIN res /\ rx.errs = {} /\ tx.len <= MaxDataBytes(bch)) =>
        res["A"].ret = 0 /\ Unwritten(res["A"].errloc)

\* a block of the largest length with a non-zero ecc has been decoded clean
C2_Witness ==
    /\ "A" \in DOMAIN res /\ rx.errs = {}
    /\ tx.len = MaxDataBytes(bch) /\ tx.ecc # EccBlock(bch, 0)
    /\ res["A"].ret = 0

\* C3: on one received block, the call shapes A, B, C and D of decode_bch
\* return the same value and leave the same contents in errloc, also when
\* recv_ecc has non-zero bits below ecc_bits and when the xor is all-zero.
C3_ShapesAgree ==
    \A s1, s2 \in DOMAIN res : res[s1] = res[s2]

\* shapes C and D have located an error in a block whose pad bit is set
C3_Witness ==
    /\ {"C", "D"} \subseteq DOMAIN res
    /\ \E p \in rx.errs : PosOf(p) >= NBits(bch, tx.len)
    /\ res["D"].ret >= 1

\* C4: decode_bch returns -11 if and only if len > ceil((n - ecc_bits)/8),
\* or syn and calc_ecc are both absent while data or recv_ecc is absent;
\* it then has written neither errloc nor a scratch buffer of the codec.
C4_InvalidArgs ==
    [][call'.op = "decode_bch" =>
          LET bad == \/ call'.len > MaxDataBytes(bch)
                     \/ (~call'.syn /\ ~call'.calc_ecc
                          /\ (~call'.data \/ ~call'.recv_ecc))
          IN  /\ (ret' = -11) <=> bad
              /\ bad => (bch' = bch /\ Unwritten(errloc'))]_vars

\* a call with data but without recv_ecc, calc_ecc and syn was rejected
C4_Witness ==
    /\ DecodeCalled /\ ret = -11
    /\ call.len <= MaxDataBytes(bch)
    /\ call.data /\ ~call.recv_ecc /\ ~call.calc_ecc /\ ~call.syn

\* C5: whatever the received word or the syndrome vector, decode_bch
\* returns at most t and writes no entry of errloc beyond errloc[t-1].
C5_AtMostTEntries ==
    DecodeCalled =>
        /\ ret <= bch.t
        /\ \A i \in DOMAIN errloc : i >= bch.t => errloc[i] = UNINIT

\* a caller's syndrome vector has led to a locator of the full degree t
C5_Witness ==
    /\ DecodeCalled /\ call.shape = "D" /\ ~call.data
    /\ bch.t >= 3 /\ raw.err = bch.t

\* C6 (as amended): whenever decode_bch returns k >= 0, every errloc[i],
\* i < k, names a bit of the 8*len + ecc_bits bits of data and ecc: counted
\* from the most significant bit of data[0] it is below 8*len + ecc_bits,
\* and as a number it is below 8*len + 8*ceil(ecc_bits/8); if a raw root is
\* >= 8*len + ecc_bits the call returns -13.
C6_PositionsInWord ==
    DecodeCalled =>
        /\ ret >= 0 =>
              \A i \in 0..(ret - 1) :
                  /\ errloc[i] >= 0
                  /\ PosOf(errloc[i]) < NBits(bch, call.len)
                  /\ errloc[i] < 8 * call.len + 8 * DIV_ROUND_UP(bch.ecc_bits, 8)
        /\ (/\ raw.err > 0 /\ raw.nroots = raw.err
            /\ \E i \in 0..(raw.err - 1) : raw.roots[i] >= NBits(bch, call.len)) =>
              ret = -13

\* decode_bch has reported a position that is not below 8*len + ecc_bits
C6_Witness ==
    /\ DecodeCalled /\ ret >= 1
    /\ \E i \in 0..(ret - 1) : errloc[i] >= NBits(bch, call.len)

\* C6 as stated: every reported position is below 8*len + ecc_bits
C6_PositionsBelowNBits ==
    (DecodeCalled /\ ret >= 0) =>
        \A i \in 0..(ret - 1) : errloc[i] < NBits(bch, call.len)

GenPoly(b) == compute_generator_polynomial(b).g

\* the union of the cyclotomic cosets of 1, 3, .., 2t-1 modulo n
Cosets(m, t, n) ==
    {(r * (2 ^ j)) % n : r \in {2 * i + 1 : i \in 0..(t - 1)}, j \in 0..(m - 1)}

\* the sum of the field elements f[lo], .., f[hi]
RECURSIVE XorRange(_, _, _)
XorRange(f, lo, hi) ==
    IF lo = hi THEN f[lo]
    ELSE XOR(XorRange(f, lo, (lo + hi) \div 2), XorRange(f, (lo + hi) \div 2 + 1, hi))

\* g(a^j) for a polynomial g with coefficients 0 and 1
EvalGen(b, g, j) ==
    XorRange([k \in 0..g.deg |-> IF g.c[k] = 0 THEN 0 ELSE b.a_pow_tab[(j * k) % b.n]],
             0, g.deg)

\* the exponents of a polynomial over GF(2)
Exps(g) == {k \in 0..g.deg : g.c[k] # 0}

SymDiff(A, B) == (A \ B) \cup (B \ A)

\* long division over GF(2) of the polynomial with the exponents S by the
\* polynomial with the exponents G of degree d: the steps for the leading
\* exponents hi down to lo
RECURSIVE RemLoop(_, _, _, _, _)
RemLoop(G, d, lo, hi, S) ==
    IF S = {} THEN S
    ELSE IF lo = hi
    THEN (IF hi \in S THEN SymDiff(S, {k + hi - d : k \in G}) ELSE S)
    ELSE RemLoop(G, d, lo, (lo + hi) \div 2,
                 RemLoop(G, d, (lo + hi) \div 2 + 1, hi, S))

\* X^n - 1 modulo g (over GF(2))
RemXn1(g, n) == RemLoop(Exps(g), g.deg, g.deg, n, {0, n})

DataExps(b, data, len) ==
    {(8 * len - 1 - s) + b.ecc_bits :
        s \in {x \in 0..(8 * len - 1) : BIT(data[x \div 8], 7 - (x % 8)) = 1}}

\* data(X) * X^ecc_bits mod g(X)
ParityExps(b, data, len) ==
    IF len = 0 THEN {}
    ELSE RemLoop(Exps(GenPoly(b)), b.ecc_bits, b.ecc_bits,
                 8 * len - 1 + b.ecc_bits, DataExps(b, data, len))

\* 2^(7-q) if the bit q (from the most significant) of byte i of the ecc
\* holds a coefficient that is in R
ParityBit(b, R, i, q) ==
    IF (b.ecc_bits - 1 - (8 * i + q)) \in R THEN 2 ^ (7 - q) ELSE 0

\* the ecc_bytes bytes holding the polynomial with the exponents R in their
\* high-order ecc_bits bits, most significant bit first, the other bits zero
ParityBytes(b, R) ==
    [i \in 0..(b.ecc_bytes - 1) |->
        ParityBit(b, R, i, 0) + ParityBit(b, R, i, 1) + ParityBit(b, R, i, 2)
        + ParityBit(b, R, i, 3) + ParityBit(b, R, i, 4) + ParityBit(b, R, i, 5)
        + ParityBit(b, R, i, 6) + ParityBit(b, R, i, 7)]

\* C13: for every data block encoded from a zeroed ecc buffer, whatever its
\* length and alignment, the high-order ecc_bits bits of ecc are
\* data(X) * X^ecc_bits mod g(X), most significant bit first, and the
\* remaining low bits of the ecc_bytes bytes are zero.
C13_EncodeIsRemainder ==
    /\ call.op \in {"encode_bch", "corrupt", "encode_recv"} =>
          tx.ecc = ParityBytes(bch, ParityExps(bch, tx.data, tx.len))
    /\ call.op = "encode_recv" =>
          rx.calc = ParityBytes(bch, ParityExps(bch, rx.data, tx.len))

\* a block has been encoded through the byte path and the word path (one
\* byte up to the word boundary, then one aligned word), and its parity has
\* zero bits below the ecc_bits bits
C13_Witness ==
    /\ call.op = "encode_bch"
    /\ tx.align = 3 /\ tx.len = 5
    /\ bch.ecc_bits = 5 /\ tx.ecc # EccBlock(bch, 0)

\* C14: encoding a block in chunks, by successive encode_bch calls with the
\* same ecc buffer zeroed before the first call, gives the same ecc as
\* encoding it in one call.
C14_IncrementalEncode ==
    call.op = "encode_chunks" =>
        tx.ecc = encode_bch(bch, tx.data, tx.len, tx.align, EccBlock(bch, 0)).ecc

\* a block has been encoded in three non-empty chunks
C14_Witness ==
    /\ call.op = "encode_chunks"
    /\ 0 < call.k1 /\ call.k1 < call.k2 /\ call.k2 < tx.len
    /\ tx.ecc # EccBlock(bch, 0)
    /\ tx.ecc = ParityBytes(bch, ParityExps(bch, tx.data, tx.len))

\* =========================================================================
\* Properties of the bit-oriented API
\* =========================================================================
BitsDecoded == "bits" \in DOMAIN res

BitsCorrected == "fixed" \in DOMAIN res

\* C15: when the channel has flipped at most t of the n bits (the data
\* bits x followed by the ecc bits of encodebits_bch), decodebits_bch
\* returns the number of flipped bits, and correctbits_bch, applied to the
\* received data bits with the errloc and the count returned, gives x.
C15_BitsRoundTrip ==
    (BitsDecoded /\ Cardinality(rx.errs) <= bch.t) =>
        /\ fault = "none"
        /\ res["bits"].ret = Cardinality(rx.errs)
        /\ BitsCorrected => res["fixed"].data = tx.data

\* t = 2 bits were flipped, the first data bit and an ecc bit, of data
\* given as ASCII digits, and the data bits were corrected
C15_Witness ==
    /\ BitsCorrected
    /\ bch.t = 2 /\ Cardinality(rx.errs) = 2
    /\ 0 \in rx.errs /\ bch.n - 1 \in rx.errs
    /\ tx.data[1] = 49
    /\ rx.data # tx.data
    /\ res["fixed"].data = tx.data

\* the parameters and the tables of the codec b are those of the codec a
SameTables(a, b) ==
    /\ b.m = a.m /\ b.t = a.t /\ b.n = a.n
    /\ b.ecc_bits = a.ecc_bits /\ b.ecc_bytes = a.ecc_bytes
    /\ b.a_pow_tab = a.a_pow_tab /\ b.a_log_tab = a.a_log_tab
    /\ b.mod8_tab = a.mod8_tab /\ b.xi_tab = a.xi_tab

\* the step is the first bit-oriented call on the codec
FirstBitsCall ==
    /\ call'.op \in {"encodebits_bch", "decodebits_bch"}
    /\ bch.ptr.databuf = NULL

\* the step has allocated databuf, and nothing else
DatabufAllocated ==
    /\ bch'.ptr.databuf # NULL
    /\ bch'.ptr = [bch.ptr EXCEPT !.databuf = bch'.ptr.databuf]
    /\ bch_check_free(alloc_heap_i') =
          IF build = "linux" THEN bch_check_free(alloc_heap_i)
          ELSE bch_check_free(alloc_heap_i) - (DataBytes(bch) + bch.ecc_bytes)

\* the step has allocated nothing
NothingAllocated ==
    /\ bch'.ptr = bch.ptr
    /\ bch_check_free(alloc_heap_i') = bch_check_free(alloc_heap_i)

\* C16 as stated: no call on a codec init_bch has returned changes its
\* parameters or its tables a_pow_tab, a_log_tab, mod8_tab and xi_tab, and
\* no call allocates memory, except that the first bit-oriented call
\* allocates databuf (and bch_check_free() is smaller by its size in the
\* arena build).
C16_TablesAndAllocationsKept ==
    [][(IsCodec(bch) /\ fault = "none") =>
          /\ IsCodec(bch')
          /\ SameTables(bch, bch')
          /\ IF FirstBitsCall THEN DatabufAllocated ELSE NothingAllocated]_vars

\* =========================================================================
\* Properties of a program with two codecs
\* =========================================================================
\* the handle the step's call is not made on
Bystander == IF call'.h = "bch" THEN "other" ELSE "bch"

\* the codec at the handle h after the step
AtNext(h) == IF h = "bch" THEN bch' ELSE other'

\* the two codecs live in memory that does not overlap
Apart ==
    (build = "arena" /\ ~IsNull(bch) /\ ~IsNull(other)) =>
        /\ IsCodec(bch) /\ IsCodec(other)
        /\ ~Overlap(Range(bch), Range(other))

\* C17 as stated: a call on one handle (init_bch that returns a codec or
\* fails, free_bch, encode_bch, decode_bch) leaves the codec at the other
\* handle, initialised and not freed, as it was, and the memory of the two
\* codecs never overlaps: init_bch never hands out memory of a codec that
\* is still live.
C17_CodecsIndependent ==
    [][/\ ~IsNull(At(Bystander)) => AtNext(Bystander) = At(Bystander)
       /\ Apart']_vars

\* =========================================================================
\* Properties of the positions decode_bch reports
\* =========================================================================
\* the last call was decode_bch in one of the shapes A, B and C (data and
\* recv_ecc; recv_ecc and calc_ecc; calc_ecc alone) and returned a count
Accepted ==
    /\ DecodeCalled /\ ret >= 0
    /\ ~call.syn
    /\ call.calc_ecc \/ (call.data /\ call.recv_ecc)

\* the received block of the last call: where calc_ecc is given in place
\* of the data, the data are taken as zero and calc_ecc is added to the
\* re-encoded ecc; where recv_ecc is absent (it is XORed into calc_ecc)
\* it is taken as zero
ReceivedData ==
    IF call.calc_ecc THEN Mem([i \in 0..(call.len - 1) |-> 0]) ELSE call.args.data.v

ReceivedEcc == IF call.recv_ecc THEN call.args.recv_ecc.v ELSE EccBlock(bch, 0)

\* the received block with the reported positions flipped
Flipped == Corrected(ReceivedData, ReceivedEcc, call.len, errloc, ret)

\* the ecc of the data d, re-encoded
Reencoded(d) ==
    IF call.calc_ecc
    THEN XorBytes(encode_bch(bch, d, call.len, 0, EccBlock(bch, 0)).ecc, call.args.calc_ecc.v)
    ELSE encode_bch(bch, d, call.len, 0, EccBlock(bch, 0)).ecc

\* the ecc_bits bits of the ecc bytes e
EccBitsOf(b, e) == Mem([k \in 0..(b.ecc_bits - 1) |-> BIT(e[k \div 8], 7 - (k % 8))])

\* C18 as stated: when decode_bch returns k >= 0 in shape A, B or C, the
\* received block with the k reported positions flipped is a codeword:
\* re-encoding its data gives its ecc (the ecc_bits bits of it; the bits
\* that pad the last ecc byte are not part of the codeword), whatever
\* number of errors the received block has.
C18_AcceptedIsCodeword ==
    Accepted => EccBitsOf(bch, Reencoded(Flipped.data)) = EccBitsOf(bch, Flipped.ecc)

\* =========================================================================
\* Properties of a series of calls on one codec
\* =========================================================================
\* the codec b with its scratch buffers as init_bch left them, written by
\* no call
Untouched(b) ==
    [b EXCEPT !.ecc_buf = Mem([i \in DOMAIN @ |-> {"uninit"}]),
              !.ecc_buf2 = Mem([i \in DOMAIN @ |-> {"uninit"}]),
              !.syn = Mem([i \in DOMAIN @ |-> UNINIT]),
              !.cache = Mem([i \in DOMAIN @ |-> UNINIT]),
              !.pm = Mem([i \in DOMAIN @ |-> UNINIT]),
              !.databuf = Mem([i \in DOMAIN @ |-> UNINIT])]

\* the step is a call that has returned
Returned(op) == IsCodec(bch) /\ fault = "none" /\ fault' = "none" /\ call'.op = op

\* the step's encodebits_bch call gives what it gives on the untouched codec
SameEncodeBits ==
    \E r \in {encodebits_bch(build, alloc_heap_i, Untouched(bch), tx.data)} :
        tx'.ecc = r.ecc

SameDecodeBits ==
    \E r \in {decodebits_bch(build, alloc_heap_i, Untouched(bch), Ptr(rx.data), Ptr(rx.ecc),
                              NoErrloc(bch.t))} :
        ret' = r.ret /\ errloc' = r.errloc

SameEncode ==
    \E r \in {encode_bch(Untouched(bch), DataBlock(call'.len, call'.seed), call'.len, 0,
                          EccBlock(bch, 0))} :
        res'["ecc"].ecc = r.ecc

SameDecode ==
    \E r \in {ByteDecodeWith(Untouched(bch), call'.len,
                              ByteArgs(bch, call'.shape, call'.len, call'.seed, call'.ecc))} :
        ret' = r.ret /\ errloc' = r.errloc

\* C19: in a series of encode_bch, decode_bch, encodebits_bch and
\* decodebits_bch calls on one codec, every call returns the value and the
\* outputs it returns on a codec whose scratch buffers (ecc_buf, ecc_buf2,
\* syn, cache, elp, poly_2t, databuf) no earlier call has written: they
\* depend on the call's arguments only.
C19_HistoryIndependent ==
    [][/\ Returned("encodebits_bch") => SameEncodeBits
       /\ Returned("decodebits_bch") => SameDecodeBits
       /\ Returned("encode_bch") => SameEncode
       /\ Returned("decode_bch") => SameDecode]_vars

\* decodebits_bch has found errors after a decode_bch call on another block
\* that found a different number of errors
C19_Witness ==
    /\ call.op = "decodebits_bch"
    /\ "bytes" \in DOMAIN res /\ res["bytes"].ret > 0
    /\ ret > 0 /\ ret # res["bytes"].ret

\* =========================================================================
\* Properties of compute_error_locator_polynomial
\* =========================================================================
\* the polynomial scratch when the loop is entered: elp = pelp = 1
ElpStart(b) ==
    [poly_memset(poly_memset(Untouched(b).pm, POLY_2T(b.t, 0), GF_POLY_SZ(2 * b.t) \div 4),
                 ELP, GF_POLY_SZ(2 * b.t) \div 4)
       EXCEPT ![POLY_2T(b.t, 0)] = 0, ![POLY_2T(b.t, 0) + 1] = 1, ![ELP] = 0, ![ELP + 1] = 1]

\* the loop's variables after the iteration i on the variables s
ElpNext(b, syn, s, u) ==
    [i |-> s.i + 1,
     d |-> IF s.i < b.t - 1
           THEN elp_discrepancy(b, syn, u.pm, s.i, 1, syn[2 * s.i + 2])
           ELSE s.d,
     pd |-> u.pd, pp |-> u.pp, pm |-> u.pm]

\* the loop's variables at each evaluation of "(i < t) && (elp->deg <= t)",
\* the last one being that which leaves the loop
RECURSIVE ElpStates(_, _, _)
ElpStates(b, syn, s) ==
    IF ~(s.i < b.t /\ PDeg(s.pm, ELP) <= b.t) THEN <<s>>
    ELSE <<s>> \o ElpStates(b, syn,
                            ElpNext(b, syn, s,
                                    IF s.d # 0
                                    THEN elp_update(b, s.pm, s.i, s.d, s.pd, s.pp)
                                    ELSE [pm |-> s.pm, pd |-> s.pd, pp |-> s.pp]))

\* the last decode_bch call has run compute_error_locator_polynomial on
\* the caller's syndromes, or on those of the caller's calc_ecc
LocatorComputed ==
    /\ DecodeCalled /\ ret # -EINVAL
    /\ call.syn \/ ~call.recv_ecc

LocatorSyn == IF call.syn THEN call.args.syn.v ELSE bch.syn

LocatorStates ==
    ElpStates(bch, LocatorSyn,
              [i |-> 0, d |-> LocatorSyn[0], pd |-> 1, pp |-> -1, pm |-> ElpStart(bch)])

\* elp.deg + pelp.deg = pp + 1
DegreesAddUp(b, s) == PDeg(s.pm, ELP) + PDeg(s.pm, POLY_2T(b.t, 0)) = s.pp + 1

\* the iteration on s writes elp->c[j+k] for j <= pelp->deg only at
\* indices up to 2t
WritesInRange(b, s) ==
    (s.i < b.t /\ PDeg(s.pm, ELP) <= b.t /\ s.d # 0) =>
        /\ 2 * s.i - s.pp >= 0
        /\ PDeg(s.pm, POLY_2T(b.t, 0)) + 2 * s.i - s.pp <= 2 * b.t

\* the iteration that leads from s to s1 reads syn[2i+2] and syn[2i+2-j]
\* for 1 <= j <= elp->deg only at indices in 0 .. 2t-1
ReadsInRange(b, s, s1) ==
    s.i < b.t - 1 =>
        /\ 2 * s.i + 2 <= 2 * b.t - 1
        /\ 2 * s.i + 2 - PDeg(s1.pm, ELP) >= 0

\* what the function returns from the last of the states
ElpReturn(b, s) == IF PDeg(s.pm, ELP) > b.t THEN -1 ELSE PDeg(s.pm, ELP)

\* C20: for every vector of 2t syndromes, those a caller supplies included,
\* elp.deg + pelp.deg = pp + 1 holds at every evaluation of the loop
\* condition of compute_error_locator_polynomial, every locator
\* coefficient is written at an index <= 2t, every syndrome is read at an
\* index in 0 .. 2t-1, and the function returns elp.deg when elp.deg <= t
\* and -1 otherwise.
C20_LocatorInvariant ==
    LocatorComputed =>
        \E tr \in {LocatorStates} :
            /\ \A k \in DOMAIN tr :
                  /\ DegreesAddUp(bch, tr[k])
                  /\ WritesInRange(bch, tr[k])
                  /\ k < Len(tr) => ReadsInRange(bch, tr[k], tr[k + 1])
            /\ raw.err = ElpReturn(bch, tr[Len(tr)])
            /\ raw.err <= 0 => bch.pm = tr[Len(tr)].pm

\* syndromes supplied by the caller, none the square of another as those of
\* a received word are, have led to a locator of degree t + 1 or more: the
\* function has returned -1
C20_Witness ==
    /\ LocatorComputed /\ call.syn /\ bch.t >= 3
    /\ LocatorSyn[1] # gf_sqr(bch, LocatorSyn[0])
    /\ PDeg(bch.pm, ELP) > bch.t
    /\ raw.err = -1 /\ ret = -EBADMSG

\* =========================================================================
\* Properties of the root search: find_poly_roots and the polynomial
\* routines under it
\* =========================================================================
\* what compute_error_locator_polynomial has returned to the last decode_bch
\* call: [ret, pm]
LocatorResult == compute_error_locator_polynomial(bch, LocatorSyn, Untouched(bch).pm)

\* the last decode_bch call has searched the roots of its locator
RootsSearched == LocatorComputed /\ raw.err > 0

\* c[deg] # 0, or the polynomial is the constant 0
LeadingNonZero(b, pm, a) ==
    \/ PC(pm, a, PDeg(pm, a)) \in 1..b.n
    \/ PDeg(pm, a) = 0 /\ PC(pm, a, 0) = 0

\* the variables of gf_poly_gcd's loop at each evaluation of "b->deg > 0",
\* the last one being that which leaves the loop
RECURSIVE GcdStates(_, _, _, _, _)
GcdStates(b, pm, cache, x, y) ==
    IF PDeg(pm, y) > 0
    THEN <<[pm |-> pm, a |-> x, b |-> y]>>
         \o (LET r == gf_poly_mod(b, pm, cache, x, y, FALSE)
             IN  GcdStates(b, r.pm, r.cache, y, x))
    ELSE <<[pm |-> pm, a |-> x, b |-> y]>>

\* the polynomial scratch after each iteration i, i + 1, ... of
\* compute_trace_bk_mod's loop
RECURSIVE TraceStates(_, _, _, _, _, _)
TraceStates(b, pm, cache, f, z, i) ==
    IF i >= GF_M(b) THEN <<>>
    ELSE LET p1 == trace_step(b, pm, cache, f, z, i)
         IN  <<p1>> \o TraceStates(b, p1, cache, f, z, i + 1)

\* the stages of factor_polynomial(bch, k, f, &g, &h) on the scratch pm:
\* the iterations of the trace, the trace tr, the loop of the gcd and the
\* gcd gc when the trace has a degree > 0, the division dv when the gcd has
\* a smaller degree than f, and the factors fp
FactorStages(b, pm, cache, k, f) ==
    LET f2 == POLY_2T(GF_T(b), 0)
        tk == POLY_2T(GF_T(b), 2)
        st == trace_start(b, pm, cache, k, f)
        tr == compute_trace_bk_mod(b, pm, cache, k, f)
        traced == PDeg(tr.pm, tk) > 0
        pmc == gf_poly_copy(tr.pm, f2, f)
        gc == gf_poly_gcd(b, pmc, tr.cache, f2, tk)
        split == traced /\ PDeg(gc.pm, gc.gcd) < PDeg(gc.pm, f)
    IN  [trace |-> TraceStates(b, st.pm, st.cache, f, POLY_2T(GF_T(b), 3), 0),
         tr |-> tr,
         gcds |-> IF ~traced THEN <<>>
                  ELSE IF PDeg(pmc, f2) < PDeg(pmc, tk)
                  THEN GcdStates(b, pmc, tr.cache, tk, f2)
                  ELSE GcdStates(b, pmc, tr.cache, f2, tk),
         gc |-> IF traced THEN <<gc>> ELSE <<>>,
         dv |-> IF split
                THEN <<gf_poly_div(b, gc.pm, gc.cache, f, gc.gcd, POLY_2T(GF_T(b), 1))>>
                ELSE <<>>,
         fp |-> factor_polynomial(b, pm, cache, k, f)]

\* the calls find_poly_roots(bch, k, poly, ...) makes, itself first, each
\* with its nesting depth, the scratch it finds and either what it returns
\* or, if it factors poly, the stages of factor_polynomial
RECURSIVE FindCalls(_, _, _, _, _, _, _)
FindCalls(b, pm, cache, k, poly, roots, depth) ==
    LET factored == PDeg(pm, poly) \notin 1..4 /\ PDeg(pm, poly) # 0 /\ k <= GF_M(b)
        fs == FactorStages(b, pm, cache, k, poly)
        r1 == find_poly_roots(b, fs.fp.pm, fs.fp.cache, k + 1, fs.fp.g, roots, 0)
        self == [k |-> k, depth |-> depth, pm |-> pm, poly |-> poly,
                 out |-> IF factored THEN <<>>
                         ELSE <<find_poly_roots(b, pm, cache, k, poly, roots, 0)>>,
                 stages |-> IF factored THEN <<fs>> ELSE <<>>]
    IN  IF ~factored THEN <<self>>
        ELSE <<self>>
             \o FindCalls(b, fs.fp.pm, fs.fp.cache, k + 1, fs.fp.g, roots, depth + 1)
             \o (IF fs.fp.h = NULL THEN <<>>
                 ELSE FindCalls(b, r1.pm, r1.cache, k + 1, fs.fp.h, roots, depth + 1))

\* the calls of find_poly_roots in the last decode_bch call
RootCalls ==
    FindCalls(bch, LocatorResult.pm, Untouched(bch).cache, 1, ELP, NoErrloc(bch.t), 1)

\* the polynomials one call of factor_polynomial on f hands on have a
\* non-zero leading coefficient
StagesLeadNonZero(b, f, fs) ==
    LET q == POLY_2T(GF_T(b), 1)
        tk == POLY_2T(GF_T(b), 2)
        z == POLY_2T(GF_T(b), 3)
    IN  /\ \A i \in 1..(Len(fs.trace) - 1) : LeadingNonZero(b, fs.trace[i], z)
        /\ LeadingNonZero(b, fs.tr.pm, tk)
        /\ \A i \in DOMAIN fs.gcds :
              /\ LeadingNonZero(b, fs.gcds[i].pm, fs.gcds[i].a)
              /\ LeadingNonZero(b, fs.gcds[i].pm, fs.gcds[i].b)
        /\ \A i \in DOMAIN fs.gc : LeadingNonZero(b, fs.gc[i].pm, fs.gc[i].gcd)
        /\ \A i \in DOMAIN fs.dv :
              /\ LeadingNonZero(b, fs.dv[i].pm, q)
              /\ LeadingNonZero(b, fs.dv[i].pm, f)
        /\ LeadingNonZero(b, fs.fp.pm, fs.fp.g)
        /\ fs.fp.h # NULL => LeadingNonZero(b, fs.fp.pm, fs.fp.h)

\* C21: every polynomial handed from one decoder stage to the next - the
\* locator compute_error_locator_polynomial leaves, the results of
\* gf_poly_mod, gf_poly_gcd and gf_poly_div and the two factors
\* factor_polynomial stores - has c[deg] # 0 unless it is the constant 0.
C21_LeadingCoefficient ==
    /\ LocatorComputed => LeadingNonZero(bch, LocatorResult.pm, ELP)
    /\ RootsSearched =>
          \E calls \in {RootCalls} :
              \A j \in DOMAIN calls :
                  \E c \in {calls[j]} :
                      /\ LeadingNonZero(bch, c.pm, c.poly)
                      /\ \A i \in DOMAIN c.stages :
                            StagesLeadNonZero(bch, c.poly, c.stages[i])

\* factor_polynomial has split f after a gcd loop of two iterations or more
\* and a division
Split(fs) == fs.fp.h # NULL /\ Len(fs.gcds) >= 3 /\ Len(fs.dv) = 1

\* a locator of degree 5 has been split by factor_polynomial into two
\* factors, after a gcd loop of two iterations or more and a division
C21_Witness ==
    /\ RootsSearched /\ raw.err = 5
    /\ \E calls \in {RootCalls} :
          \E j \in DOMAIN calls, i \in {1} :
              \E c \in {calls[j]} :
                  i \in DOMAIN c.stages /\ Split(c.stages[i])

RECURSIVE SumCnt(_, _)
\* the roots the calls 1 .. j that factor nothing have returned
SumCnt(calls, j) ==
    IF j = 0 THEN 0
    ELSE SumCnt(calls, j - 1) + (IF calls[j].out = <<>> THEN 0 ELSE calls[j].out[1].cnt)

\* gf_poly_gcd's loop calls gf_poly_mod(a, b) with deg a >= deg b >= 1, and
\* the degree of b decreases from one evaluation of "b->deg > 0" to the next
GcdDecreases(gcds) ==
    \A i \in 1..(Len(gcds) - 1) :
        /\ PDeg(gcds[i].pm, gcds[i].b) >= 1
        /\ PDeg(gcds[i].pm, gcds[i].a) >= PDeg(gcds[i].pm, gcds[i].b)
        /\ PDeg(gcds[i + 1].pm, gcds[i + 1].b) < PDeg(gcds[i].pm, gcds[i].b)

\* the gf_poly_mod calls of one factor_polynomial call on f, of degree df:
\* z mod f in the trace leaves deg z < df, the gcd loop decreases, and
\* gf_poly_div divides by a gcd of degree >= 1 and leaves a remainder of a
\* smaller degree
StagesDecrease(b, df, f, fs) ==
    /\ df >= 1
    /\ \A i \in 1..(Len(fs.trace) - 1) : PDeg(fs.trace[i], POLY_2T(GF_T(b), 3)) < df
    /\ GcdDecreases(fs.gcds)
    /\ \A i \in DOMAIN fs.dv :
          /\ PDeg(fs.gc[i].pm, fs.gc[i].gcd) >= 1
          /\ PDeg(fs.dv[i].pm, f) < PDeg(fs.gc[i].pm, fs.gc[i].gcd)

\* call j is a recursive call of an earlier one with a k smaller by one
CalledWithNextK(calls, j) ==
    \E i \in 1..(j - 1) :
        /\ calls[i].stages # <<>>
        /\ calls[i].k + 1 = calls[j].k
        /\ calls[j].poly \in {calls[i].stages[1].fp.g, calls[i].stages[1].fp.h}

\* C22: find_poly_roots, called with k = 1 on a locator of degree <= t,
\* terminates: each recursive call has the k of its caller plus one, a
\* polynomial of degree > 4 reached with k > m yields 0 roots, the nesting
\* never exceeds m + 1, and every gf_poly_mod call under it has a divisor
\* of degree >= 1 and leaves a strictly smaller degree.
C22_RootSearchTerminates ==
    RootsSearched =>
        \E calls \in {RootCalls} :
            /\ calls[1].k = 1 /\ PDeg(calls[1].pm, ELP) \in 1..bch.t
            /\ raw.nroots = SumCnt(calls, Len(calls))
            /\ \A j \in DOMAIN calls :
                  \E c \in {calls[j]} :
                      /\ j > 1 => CalledWithNextK(calls, j)
                      /\ c.depth = c.k /\ c.depth <= bch.m + 1
                      /\ (PDeg(c.pm, c.poly) > 4 /\ c.k > bch.m) =>
                            c.out # <<>> /\ c.out[1].cnt = 0
                      /\ \A i \in DOMAIN c.stages :
                            StagesDecrease(bch, PDeg(c.pm, c.poly), c.poly, c.stages[i])

\* find_poly_roots has been called with k = m + 1 on a polynomial of
\* degree > 4, and has returned 0
C22_Witness ==
    /\ RootsSearched
    /\ \E calls \in {RootCalls} :
          \E j \in DOMAIN calls :
              \E c \in {calls[j]} :
                  /\ c.k = bch.m + 1 /\ c.depth = bch.m + 1
                  /\ PDeg(c.pm, c.poly) > 4
                  /\ c.out # <<>> /\ c.out[1].cnt = 0

\* =========================================================================
\* Properties of the closed-form root finders
\* =========================================================================
\* the roots stored by the last call
StoredRoots == {errloc[i] : i \in 1..Len(errloc)}

\* x^4 + a x^2 + b x + c
Affine4At(b0, a, b, c, x) ==
    XOR(XOR(gf_sqr(b0, gf_sqr(b0, x)), gf_mul(b0, a, gf_sqr(b0, x))),
        XOR(gf_mul(b0, b, x), c))

Affine4Called == call.op = "find_affine4_roots"

\* the roots of X^4 + aX^2 + bX + c in GF(2^m), a, b, c being the arguments
\* of the last call
Affine4Zeros ==
    {x \in 0..bch.n : Affine4At(bch, call.args[1], call.args[2], call.args[3], x) = 0}

\* C23: for all a, b, c of GF(2^m), find_affine4_roots returns 4 if and
\* only if X^4 + aX^2 + bX + c has exactly 4 distinct roots in GF(2^m), and
\* then roots[0..3] are those roots; otherwise it returns 0.
C23_Affine4Roots ==
    Affine4Called =>
        IF Cardinality(Affine4Zeros) = 4
        THEN ret = 4 /\ Len(errloc) = 4 /\ StoredRoots = Affine4Zeros
        ELSE ret = 0

\* find_affine4_roots has returned the 4 roots of a polynomial with
\* a, b, c # 0 over GF(2^6)
C23_Witness ==
    /\ Affine4Called /\ bch.m = 6
    /\ \A i \in 1..3 : call.args[i] # 0
    /\ ret = 4 /\ Cardinality(StoredRoots) = 4

\* x + x^2 + x^4 + ... (i terms)
RECURSIVE TrFrom(_, _, _)
TrFrom(b, x, i) == IF i = 0 THEN 0 ELSE XOR(x, TrFrom(b, gf_sqr(b, x), i - 1))

\* the trace of x over GF(2)
Tr(b, x) == TrFrom(b, x, b.m)

Deg2Called == call.op = "find_poly_deg2_roots"

\* b # 0, c # 0 and Tr(ac / b^2) = 0 for the polynomial aX^2 + bX + c of
\* the last call
Deg2Splits ==
    /\ call.args[2] # 0 /\ call.args[1] # 0
    /\ Tr(bch, gf_div(bch, gf_mul(bch, call.args[3], call.args[1]),
                      gf_sqr(bch, call.args[2]))) = 0

\* log(1/r) mod n for the roots r of the polynomial of the last call
Deg2RootLogs ==
    {(bch.n - bch.a_log_tab[x]) % bch.n :
        x \in {y \in 1..bch.n :
                 XOR(XOR(gf_mul(bch, call.args[3], gf_sqr(bch, y)),
                         gf_mul(bch, call.args[2], y)), call.args[1]) = 0}}

\* xi_tab[i]^2 + xi_tab[i] = a^i + Tr(a^i) a^k for all i < m, with a k < m
\* such that Tr(a^k) = 1
XiTabBasis(b) ==
    \E k \in 0..(b.m - 1) :
        /\ Tr(b, b.a_pow_tab[k]) = 1
        /\ \A i \in 0..(b.m - 1) :
              XOR(gf_sqr(b, b.xi_tab[i]), b.xi_tab[i])
                  = XOR(b.a_pow_tab[i], gf_mul(b, Tr(b, b.a_pow_tab[i]), b.a_pow_tab[k]))

\* C24: for every aX^2 + bX + c over GF(2^m) with a # 0,
\* find_poly_deg2_roots returns 2 if and only if b # 0, c # 0 and
\* Tr(ac/b^2) = 0, and then its two outputs are distinct and are log(1/r)
\* mod n for the two roots r; otherwise it returns 0; and xi_tab[i]^2 +
\* xi_tab[i] = a^i + Tr(a^i) a^k for all i < m with a fixed k < m such that
\* Tr(a^k) = 1.
C24_Deg2Roots ==
    Deg2Called =>
        /\ XiTabBasis(bch)
        /\ IF Deg2Splits
           THEN /\ ret = 2 /\ Len(errloc) = 2 /\ errloc[1] # errloc[2]
                /\ StoredRoots = Deg2RootLogs
           ELSE ret = 0

\* find_poly_deg2_roots has found the two roots of a polynomial over
\* GF(2^6), where Tr(1) = 0 and k # 0, none of its coefficients being 0 or 1
C24_Witness ==
    /\ Deg2Called /\ bch.m = 6 /\ Tr(bch, 1) = 0
    /\ \A i \in 1..3 : call.args[i] > 1
    /\ ret = 2 /\ Cardinality(StoredRoots) = 2

Deg1Called == call.op = "find_poly_deg1_roots"

\* C25 as stated: for c1 X + c0 with c0 # 0 and c1 # 0,
\* find_poly_deg1_roots returns one root, whose value is
\* (log(c0) - log(c1)) mod n; with c0 = 0 it returns no root.
C25_Deg1RootLog ==
    Deg1Called =>
        IF call.args[1] # 0
        THEN /\ ret = 1
             /\ errloc[1] = (bch.a_log_tab[call.args[1]] - bch.a_log_tab[call.args[2]]) % bch.n
        ELSE ret = 0

\* C25, the value stored being that of the inverse of the root: for
\* c1 X + c0 with c0 # 0 and c1 # 0, find_poly_deg1_roots returns one root,
\* whose value is (log(c1) - log(c0)) mod n, the logarithm of c1/c0; with
\* c0 = 0 it returns no root.
C25_Deg1InverseLog ==
    Deg1Called =>
        IF call.args[1] # 0
        THEN /\ ret = 1
             /\ errloc[1] = (bch.a_log_tab[call.args[2]] - bch.a_log_tab[call.args[1]]) % bch.n
             /\ gf_mul(bch, call.args[2], bch.a_pow_tab[bch.n - errloc[1]]) = call.args[1]
        ELSE ret = 0

\* find_poly_deg1_roots has returned a root for c0 # c1
C25_Witness ==
    /\ Deg1Called /\ call.args[1] # 0 /\ call.args[1] # call.args[2]
    /\ ret = 1 /\ errloc[1] # 0

\* =========================================================================
\* Properties of compute_syndromes
\* =========================================================================
SynCalled == call.op = "compute_syndromes"

\* the bit p positions above the lowest of the ecc_bits parity bits of the
\* words ecc is set: the parity bits run from bit 31 of ecc[0] downwards
ParityBitSet(b, ecc, p) ==
    LET q == b.ecc_bits - 1 - p
    IN  (31 - (q % 32)) \in ecc[q \div 32]

\* r(a^e) for the part of r(X) of degree < p
RECURSIVE EvalParity(_, _, _, _)
EvalParity(b, ecc, e, p) ==
    IF p = 0 THEN 0
    ELSE XOR(IF ParityBitSet(b, ecc, p - 1) THEN b.a_pow_tab[(e * (p - 1)) % b.n] ELSE 0,
             EvalParity(b, ecc, e, p - 1))

\* the bits of the words ecc that are among the top ecc_bits bits
TopBits(b, ecc) ==
    [w \in DOMAIN ecc |-> {i \in ecc[w] : 32 * w + (31 - i) < b.ecc_bits}]

WrittenRoots == {raw.roots[i] : i \in {k \in DOMAIN raw.roots : raw.roots[k] # UNINIT}}

\* the positions correctbits_bch is called with index databits, if at all,
\* inside it
CorrectsInside ==
    \A i \in 0..(res["bits"].ret - 1) :
        \E bi \in {res["bits"].errloc[i]} :
            /\ bi \in 0..(bch.n - 1)
            /\ bi < bch.n - bch.ecc_bits => bi \in DOMAIN rx.data

\* C27: every value find_poly_roots writes lies in [0, n); whenever
\* decodebits_bch returns k > 0, every errloc[i], i < k, is n - 1 - root
\* after the un-swap and the subtraction of nPad and lies in [0, n), so that
\* correctbits_bch indexes databits at no negative or out-of-range
\* position, whatever the number of errors in the received bits.
C27_BitPositionsInRange ==
    /\ (fault = "none" /\ call.op \in {"decodebits_bch", "decode_bch"}) =>
          WrittenRoots \subseteq 0..(bch.n - 1)
    /\ (fault = "none" /\ call.op = "decodebits_bch" /\ ret > 0) =>
          \A i \in 0..(ret - 1) :
              /\ errloc[i] \in 0..(bch.n - 1)
              /\ errloc[i] = bch.n - 1 - raw.roots[i]
    /\ (fault = "none" /\ call.op = "correctbits_bch") => CorrectsInside

\* with more than t bits flipped, among them the last data bit and the
\* last ecc bit, decodebits_bch has returned positions, one of them 0 or
\* n - 1, for a codec with nPad > 0, and correctbits_bch has been called
C27_Witness ==
    /\ fault = "none" /\ call.op = "correctbits_bch"
    /\ NPad(bch) > 0
    /\ Cardinality(rx.errs) > bch.t
    /\ res["bits"].ret > 0
    /\ \E i \in 0..(res["bits"].ret - 1) : res["bits"].errloc[i] \in {0, bch.n - 1}

====
